---- MODULE Spec2Model ----
(***************************************************************************)
(* Modbus master protocol engine of ModbusOnSphereA7/modbus.c: one handle, *)
(* the caller threads running request primitives on it, the delivery flow  *)
(* (EpollThread) feeding received bytes to MessageHandler, and the slave   *)
(* and socket as environment.                                              *)
(***************************************************************************)
EXTENDS Integers, Sequences, FiniteSets, TLC

\* ------------------------------------------------------------------------
\* Bounds of the model
\* ------------------------------------------------------------------------
MaxCalls == 2          \* request primitives called in one behaviour

\* ------------------------------------------------------------------------
\* Program constants (modbusCommon.h, modbus.c)
\* ------------------------------------------------------------------------
READ_COILS == 1
WRITE_SINGLE_COIL == 5
ILLEGAL_DATA_ADDRESS == 2
MODBUS_TIMEOUT == 20
MESSAGE_SEND_FAIL == 21
HANDLE_IN_USE == 22
INVALID_RESPONSE == 23
CRC_FOOTER_LENGTH == 2
PDU_HEADER_LENGTH == 3
ERROR_CODE_LENGTH == 3
FCODE_RANGE == 32
FCODE_ERROR_OFFSET == 128
MAX_PDU_LENGTH == 254
UART_CFG_MESSAGE_RESP_LENGTH == 1
TCP_HEADER_LENGTH == 6
MESSAGE_HEADER_LENGTH == 4
MODBUS_EXCEPTION_BIT == 128
WRITE_RESPONSE_START == 2
WRITE_RESPONSE_BYTES == 4
\* DEVICE_DISCONNECTED is used by NotReadyReason and ModbusErrorToString; it
\* is the implementation-specific code that follows INVALID_RESPONSE.
DEVICE_DISCONNECTED == INVALID_RESPONSE + 1

Word == 65536          \* uint16_t arithmetic is modulo 2^16

Types == {"tcp", "rtuOverTcp", "rtu"}
States == {"Idle", "SendingRequest", "WaitingForResponse", "DataReceived",
           "TransactionFailed", "Disconnected"}

\* ------------------------------------------------------------------------
\* Bytes and memory
\* ------------------------------------------------------------------------
Min(a, b) == IF a < b THEN a ELSE b
Max(a, b) == IF a > b THEN a ELSE b

RECURSIVE Xor(_, _)
\* bitwise exclusive or of two naturals
Xor(a, b) ==
    IF a = 0 THEN b
    ELSE IF b = 0 THEN a
    ELSE (((a % 2) + (b % 2)) % 2) + 2 * Xor(a \div 2, b \div 2)

\* A buffer is the sequence of the bytes written so far; the handle is
\* zeroed by memset at creation, so a byte never written reads as 0.
Rd(buf, i) == IF i + 1 <= Len(buf) THEN buf[i + 1] ELSE 0

\* memcpy(&dst[off], src, n)
MemCpy(dst, off, src, n) ==
    [k \in 1..Max(Len(dst), off + n) |->
        IF k > off /\ k <= off + n THEN src[k - off] ELSE Rd(dst, k - 1)]

\* variant of MemMove that moves nothing
MemMoveNone(dst, from, n) == dst

\* memmove(dst, &dst[from], n)
MemMove(dst, from, n) ==
    [k \in 1..Len(dst) |-> IF k <= n THEN Rd(dst, from + k - 1) ELSE dst[k]]

\* the n bytes of buf starting at offset off
Bytes(buf, off, n) == [k \in 1..n |-> Rd(buf, off + k - 1)]

\* ------------------------------------------------------------------------
\* CRC16 (table driven)
\* ------------------------------------------------------------------------
CRCTable ==
<<
    0, 49345, 49537, 320, 49921, 960, 640, 49729,
    50689, 1728, 1920, 51009, 1280, 50625, 50305, 1088,
    52225, 3264, 3456, 52545, 3840, 53185, 52865, 3648,
    2560, 51905, 52097, 2880, 51457, 2496, 2176, 51265,
    55297, 6336, 6528, 55617, 6912, 56257, 55937, 6720,
    7680, 57025, 57217, 8000, 56577, 7616, 7296, 56385,
    5120, 54465, 54657, 5440, 55041, 6080, 5760, 54849,
    53761, 4800, 4992, 54081, 4352, 53697, 53377, 4160,
    61441, 12480, 12672, 61761, 13056, 62401, 62081, 12864,
    13824, 63169, 63361, 14144, 62721, 13760, 13440, 62529,
    15360, 64705, 64897, 15680, 65281, 16320, 16000, 65089,
    64001, 15040, 15232, 64321, 14592, 63937, 63617, 14400,
    10240, 59585, 59777, 10560, 60161, 11200, 10880, 59969,
    60929, 11968, 12160, 61249, 11520, 60865, 60545, 11328,
    58369, 9408, 9600, 58689, 9984, 59329, 59009, 9792,
    8704, 58049, 58241, 9024, 57601, 8640, 8320, 57409,
    40961, 24768, 24960, 41281, 25344, 41921, 41601, 25152,
    26112, 42689, 42881, 26432, 42241, 26048, 25728, 42049,
    27648, 44225, 44417, 27968, 44801, 28608, 28288, 44609,
    43521, 27328, 27520, 43841, 26880, 43457, 43137, 26688,
    30720, 47297, 47489, 31040, 47873, 31680, 31360, 47681,
    48641, 32448, 32640, 48961, 32000, 48577, 48257, 31808,
    46081, 29888, 30080, 46401, 30464, 47041, 46721, 30272,
    29184, 45761, 45953, 29504, 45313, 29120, 28800, 45121,
    20480, 37057, 37249, 20800, 37633, 21440, 21120, 37441,
    38401, 22208, 22400, 38721, 21760, 38337, 38017, 21568,
    39937, 23744, 23936, 40257, 24320, 40897, 40577, 24128,
    23040, 39617, 39809, 23360, 39169, 22976, 22656, 38977,
    34817, 18624, 18816, 35137, 19200, 35777, 35457, 19008,
    19968, 36545, 36737, 20288, 36097, 19904, 19584, 35905,
    17408, 33985, 34177, 17728, 34561, 18368, 18048, 34369,
    33281, 17088, 17280, 33601, 16640, 33217, 32897, 16448 >>

\* the loop of GetCRC (lines 244-248) over the bytes i .. inputLength - 1,
\* starting from crcVal (a uint16_t); a run of several bytes is folded
\* half by half, the first half before the second, which gives the value of
\* the byte-by-byte loop with a shallow evaluation
RECURSIVE CrcLoop(_, _, _, _)
CrcLoop(message, i, inputLength, crcVal) ==
    IF i >= inputLength THEN crcVal
    ELSE IF inputLength - i = 1
    THEN LET TempNo == Xor(Rd(message, i), crcVal) % 256
         IN  Xor(crcVal \div 256, CRCTable[TempNo + 1])
    ELSE LET mid == i + (inputLength - i) \div 2
             first == CrcLoop(message, i, mid, crcVal)
         IN  IF first < Word THEN CrcLoop(message, mid, inputLength, first)
             ELSE first

GetCRC(message, inputLength) == CrcLoop(message, 0, inputLength, 65535)

\* variant of AddCRC that stores the high byte of the CRC first
AddCRCHighFirst(message, inputLength, maxInputLength) ==
    IF inputLength + 2 <= maxInputLength
    THEN LET crcVal == GetCRC(message, inputLength)
         IN  MemCpy(message, inputLength, <<crcVal \div 256, crcVal % 256>>, 2)
    ELSE message

\* AddCRC: the message with its CRC stored low byte first, when it fits
AddCRC(message, inputLength, maxInputLength) ==
    IF inputLength + 2 <= maxInputLength
    THEN LET crcVal == GetCRC(message, inputLength)
         IN  MemCpy(message, inputLength, <<crcVal % 256, crcVal \div 256>>, 2)
    ELSE message

\* ValidateCRC: the two trailing bytes are the CRC of the bytes before them
ValidateCRC(message, inputLength) ==
    /\ inputLength >= CRC_FOOTER_LENGTH
    /\ GetCRC(message, inputLength - 2)
         = Rd(message, inputLength - 2) + 256 * Rd(message, inputLength - 1)

\* ------------------------------------------------------------------------
\* Function-code length table
\* ------------------------------------------------------------------------
GetFcodeLength(fCode, dataLength) ==
    IF fCode > FCODE_ERROR_OFFSET /\ fCode <= FCODE_ERROR_OFFSET + FCODE_RANGE
    THEN ERROR_CODE_LENGTH
    ELSE IF fCode \in {1, 2, 3, 4, 20, 21} THEN PDU_HEADER_LENGTH + dataLength
    ELSE IF fCode \in {5, 6, 15, 16} THEN PDU_HEADER_LENGTH + 3
    ELSE IF fCode = 7 THEN PDU_HEADER_LENGTH
    ELSE 0

\* GetFcodeLength of the M4 serial receiver (ModbusOnSphereM4/main.c): the
\* second operand of the && of its first test is the constant
\* FCODE_ERROR_OFFSET + FCODE_RANGE, which is not zero
GetFcodeLengthM4(fCode, dataLength) ==
    IF fCode > FCODE_ERROR_OFFSET /\ FCODE_ERROR_OFFSET + FCODE_RANGE # 0
    THEN ERROR_CODE_LENGTH
    ELSE IF fCode \in {1, 2, 3, 4} THEN PDU_HEADER_LENGTH + dataLength
    ELSE IF fCode \in {5, 6, 15, 16} THEN PDU_HEADER_LENGTH + 3
    ELSE IF fCode = 7 THEN PDU_HEADER_LENGTH
    ELSE 0

\* ------------------------------------------------------------------------
\* Transaction check of MessageHandler (TCP only)
\* ------------------------------------------------------------------------
\* variant of TransactionCheck that accepts every identifier
TransactionCheckAcceptAll(rxTransaction, transactionId, lastTransactionId) ==
    "Accept"

TransactionCheck(rxTransaction, transactionId, lastTransactionId) ==
    IF transactionId = rxTransaction THEN "Accept"
    ELSE IF transactionId > lastTransactionId
    THEN IF rxTransaction > transactionId \/ rxTransaction <= lastTransactionId
         THEN "FutureAbort"
         ELSE IF rxTransaction < transactionId THEN "StaleDiscard"
         ELSE "Accept"
    ELSE IF rxTransaction >= lastTransactionId \/ rxTransaction < transactionId
         THEN "StaleDiscard"
         ELSE IF rxTransaction > transactionId THEN "FutureAbort"
         ELSE "Accept"

\* ------------------------------------------------------------------------
\* MessageHandler: one received chunk fed to the reassembler of a handle.
\* The result is the handle afterwards, the messageHandlerState_t returned
\* and a note of the branch taken.
\* ------------------------------------------------------------------------
TransportHeaderLength(type) ==
    IF type = "rtu" THEN MESSAGE_HEADER_LENGTH
    ELSE IF type = "tcp" THEN TCP_HEADER_LENGTH
    ELSE 0

\* variant of TransportFooterLength without the CRC footer
TransportFooterLengthNone(type) == 0

TransportFooterLength(type) ==
    IF type = "rtuOverTcp" THEN CRC_FOOTER_LENGTH ELSE 0

MinLength(type) ==
    IF type = "rtu" THEN MESSAGE_HEADER_LENGTH + PDU_HEADER_LENGTH
    ELSE IF type = "rtuOverTcp" THEN CRC_FOOTER_LENGTH + PDU_HEADER_LENGTH
    ELSE TCP_HEADER_LENGTH + PDU_HEADER_LENGTH

\* lines 1247-1354: the buffer already holds the new chunk
Reassemble(h) ==
    LET hdr == TransportHeaderLength(h.type)
        ftr == TransportFooterLength(h.type)
        fCodeOffset == hdr + 1
        pduLengthOffset == fCodeOffset + 1
        look == h.bufferedMessageLength >= MinLength(h.type) \/ h.type = "rtu"
        pduMessageLength ==
            IF ~look THEN 0
            ELSE IF h.isCFG THEN UART_CFG_MESSAGE_RESP_LENGTH
            ELSE GetFcodeLength(Rd(h.bufferedMessage, fCodeOffset),
                                Rd(h.bufferedMessage, pduLengthOffset)) % Word
        fullMessageAvailable ==
            look /\ h.bufferedMessageLength >= pduMessageLength + hdr + ftr
        rxTransaction == Rd(h.bufferedMessage, 0) * 256 + Rd(h.bufferedMessage, 1)
        class == IF h.type = "tcp"
                 THEN TransactionCheck(rxTransaction, h.transactionId,
                                       h.lastTransactionId)
                 ELSE "Accept"
        crcFailed == h.type = "rtuOverTcp"
                     /\ ~ValidateCRC(h.bufferedMessage,
                                     pduMessageLength + CRC_FOOTER_LENGTH)
        ok == pduMessageLength <= MAX_PDU_LENGTH
              /\ class # "StaleDiscard" /\ ~crcFailed
        h2 == IF ok
              THEN [h EXCEPT !.pduLength = pduMessageLength,
                             !.lastTransactionId = rxTransaction,
                             !.pdu = MemCpy(@, 0,
                                 Bytes(h.bufferedMessage, hdr, pduMessageLength),
                                 pduMessageLength)]
              ELSE h
        totalMessageLength == pduMessageLength + hdr + ftr
        remainingDataLength == h.bufferedMessageLength - totalMessageLength
    IN  IF ~fullMessageAvailable
        THEN [h |-> h, ret |-> "waiting", note |-> "pending"]
        ELSE IF class = "FutureAbort"
        THEN [h |-> [h EXCEPT !.bufferedMessageLength = 0], ret |-> "failure",
              note |-> "future"]
        ELSE [h |-> [h2 EXCEPT
                       !.bufferedMessage =
                           IF remainingDataLength > 0
                           THEN MemMove(@, totalMessageLength, remainingDataLength)
                           ELSE @,
                       !.bufferedMessageLength = remainingDataLength],
              ret |-> IF ok THEN "success" ELSE "waiting",
              note |-> IF ok THEN "complete"
                       ELSE IF crcFailed THEN "crc" ELSE "stale"]

\* variant of MessageHandler whose size test allows twice the buffer
MessageHandlerWideLimit(h, message, inputLength) ==
    IF h.state # "WaitingForResponse"
    THEN [h |-> [h EXCEPT !.bufferedMessageLength = 0], ret |-> "waiting",
          note |-> "notwaiting"]
    ELSE IF h.bufferedMessageLength + inputLength < 2 * MAX_PDU_LENGTH
    THEN Reassemble([h EXCEPT
             !.bufferedMessage = MemCpy(@, h.bufferedMessageLength, message,
                                        inputLength),
             !.bufferedMessageLength = (@ + inputLength) % Word])
    ELSE [h |-> [h EXCEPT !.bufferedMessageLength = 0], ret |-> "waiting",
          note |-> "overflow"]

MessageHandler(h, message, inputLength) ==
    IF h.state # "WaitingForResponse"
    THEN [h |-> [h EXCEPT !.bufferedMessageLength = 0], ret |-> "waiting",
          note |-> "notwaiting"]
    ELSE IF h.bufferedMessageLength + inputLength < MAX_PDU_LENGTH
    THEN Reassemble([h EXCEPT
             !.bufferedMessage = MemCpy(@, h.bufferedMessageLength, message,
                                        inputLength),
             !.bufferedMessageLength = (@ + inputLength) % Word])
    ELSE [h |-> [h EXCEPT !.bufferedMessageLength = 0], ret |-> "waiting",
          note |-> "overflow"]

\* ------------------------------------------------------------------------
\* State
\* ------------------------------------------------------------------------
Callers == {1, 2}      \* caller threads sharing the handle
Timeouts == {0, 1}     \* timeout arguments (milliseconds; 0 waits for ever)
PartialSizes == {}     \* sizes of a receive that takes less than is available

\* thread 1 calls ReadCoils, thread 2 calls WriteSingleCoil
Primitive(c) == IF c = 1 THEN READ_COILS ELSE WRITE_SINGLE_COIL
SlaveId == 1           \* slaveID argument of every request

VARIABLES
    hndl,                   \* struct _modbus_t
    transactionIdentifier,  \* static uint16_t transactionIdentifier
    pc,                     \* position of each caller thread
    fc,                     \* function code of the primitive a caller runs
    timeout,                \* its timeout argument
    counter,                \* WaitForData: counter
    retval,                 \* WaitForData: retval
    ret,                    \* return value of the primitive
    result,                 \* readArray[0] written on failure
    data,                   \* payload copied to readArray on success
    adu,                    \* frame built by ModBusWrite
    req,                    \* number of the request a caller runs
    nreq,                   \* requests issued so far
    path,                   \* how the caller's last primitive returned
    solo,                   \* no other caller was inside a primitive since
    quiet,                  \* delivery flow took no step since the call
    sentOk,                 \* send() accepted the frame of this call
    wire,                   \* bytes in the socket, not yet received
    outstanding,            \* requests the slave has not answered
    hungup,                 \* peer has hung up
    epc,                    \* position of EpollThread
    mhsState,               \* EpollThread: mhsState
    evHup,                  \* EpollThread: event.events has a hang-up bit
    active,                 \* the caller threads that use the handle
    faults,                 \* the faulty responses the slave may give
    seen,                   \* branch MessageHandler took for the request in wait
    lab                     \* inputs and results of the function experiments

vars == <<hndl, transactionIdentifier, pc, fc, timeout, counter, retval, ret,
          result, data, adu, req, nreq, path, solo, quiet, sentOk, wire,
          outstanding, hungup, epc, mhsState, evHup, active, faults, seen, lab>>

callerVars == <<pc, fc, timeout, counter, retval, ret, result, data, adu, req,
                nreq, path, solo, sentOk, active, faults>>
epollVars == <<epc, mhsState, evHup>>

\* ModbusConnectIp / ModbusConnectRtu: the handle after construction.  An
\* intercore handle has completed the serial configuration exchange of
\* WriteSerialConfig, whose 5-byte response is still in the buffers.
NewHandle(type) ==
    [type |-> type,
     transactionId |-> 0,
     lastTransactionId |-> IF type = "rtu" THEN 257 ELSE 0,
     state |-> "Idle",
     bufferedMessageLength |-> 0,
     pduLength |-> IF type = "rtu" THEN UART_CFG_MESSAGE_RESP_LENGTH ELSE 0,
     isCFG |-> type = "rtu",
     bufferedMessage |-> IF type = "rtu" THEN <<1, 1, 4, 0, 1>> ELSE <<>>,
     pdu |-> IF type = "rtu" THEN <<1>> ELSE <<>>]

\* everything but the handle: no call made, nothing on the connection
Quiescent(threads, tos, kinds) ==
    /\ active = threads
    /\ faults = kinds
    /\ pc = [c \in Callers |-> "idle"]
    /\ fc = [c \in Callers |-> Primitive(c)]
    /\ timeout \in [Callers -> tos \cup {0}]
    /\ \A c \in threads : timeout[c] \in tos
    /\ \A c \in Callers \ threads : timeout[c] = 0
    /\ counter = [c \in Callers |-> 0]
    /\ retval = [c \in Callers |-> FALSE]
    /\ ret = [c \in Callers |-> FALSE]
    /\ result = [c \in Callers |-> 0]
    /\ data = [c \in Callers |-> <<>>]
    /\ adu = [c \in Callers |-> <<>>]
    /\ req = [c \in Callers |-> 0]
    /\ nreq = 0
    /\ path = [c \in Callers |-> "none"]
    /\ solo = [c \in Callers |-> TRUE]
    /\ quiet = TRUE
    /\ sentOk = [c \in Callers |-> FALSE]
    /\ wire = <<>>
    /\ outstanding = {}
    /\ hungup = FALSE
    /\ epc = "wait"
    /\ mhsState = "waiting"
    /\ evHup = FALSE
    /\ seen = "none"

\* the state after ModbusConnectIp or ModbusConnectRtu: the transaction
\* counter has been used once by the configuration exchange of an rtu handle
InitWith(threads, tos, kinds) ==
    /\ Quiescent(threads, tos, kinds)
    /\ \E t \in Types :
          /\ hndl = NewHandle(t)
          /\ transactionIdentifier = IF t = "rtu" THEN 1 ELSE 0
    /\ lab = [kind |-> "none"]

\* ------------------------------------------------------------------------
\* Request primitives (ReadCoils, WriteSingleCoil): caller thread steps
\* ------------------------------------------------------------------------
Busy(c) == pc[c] \notin {"idle", "done"}

\* a variant that does not tell a lost connection from a busy handle; the
\* property of C2 must reject it
NotReadyReasonBusyOnly(h) == HANDLE_IN_USE

\* NotReadyReason, lines 1439-1445
NotReadyReason(h) ==
    IF h.state = "Disconnected" THEN DEVICE_DISCONNECTED ELSE HANDLE_IN_USE

\* SET_MODBUS_HEADER: the 6-byte request of the two primitives; the address
\* is the request number, ReadCoils asks for 8 coils, WriteSingleCoil sets.
RequestPdu(fCode, address) ==
    <<SlaveId, fCode, (address \div 256) % 256, address % 256,
      IF fCode = READ_COILS THEN 0 ELSE 255,
      IF fCode = READ_COILS THEN 8 ELSE 0>>

\* what two bytes of an uninitialised local array may hold
StackContents == [1..2 -> {0, 255}]

\* variant of BuildAdu that stores the transaction identifier low byte first
BuildAduLowFirst(type, tid, modBusPacket, packetLength, stack) ==
    IF type = "tcp"
    THEN <<tid % 256, (tid \div 256) % 256, 0, 0,
           (packetLength \div 256) % 256, packetLength % 256>> \o modBusPacket
    ELSE IF type = "rtuOverTcp"
    THEN Bytes(AddCRC(modBusPacket \o stack, packetLength, MAX_PDU_LENGTH), 0,
               packetLength + CRC_FOOTER_LENGTH)
    ELSE <<2, 1, MESSAGE_HEADER_LENGTH, 0>> \o modBusPacket

\* ModBusWrite lines 1076-1112: the frame handed to SendToSlave. The local
\* array of the rtuOverTcp branch (line 1090) is not initialised: stack is
\* what its two bytes after the PDU hold before AddCRC is called, and they
\* are sent as they are when AddCRC does not store a CRC
BuildAdu(type, tid, modBusPacket, packetLength, stack) ==
    IF type = "tcp"
    THEN <<(tid \div 256) % 256, tid % 256, 0, 0,
           (packetLength \div 256) % 256, packetLength % 256>> \o modBusPacket
    ELSE IF type = "rtuOverTcp"
    THEN Bytes(AddCRC(modBusPacket \o stack, packetLength, MAX_PDU_LENGTH), 0,
               packetLength + CRC_FOOTER_LENGTH)
    ELSE <<2, 1, MESSAGE_HEADER_LENGTH, 0>> \o modBusPacket

\* the primitive is entered and tests hndl->state (line 373)
Call(c) ==
    /\ c \in active
    /\ pc[c] \in {"idle", "done"}
    /\ nreq < MaxCalls
    /\ UNCHANGED <<fc, timeout>>
    /\ nreq' = nreq + 1
    /\ req' = [req EXCEPT ![c] = nreq + 1]
    /\ pc' = [pc EXCEPT ![c] = IF hndl.state # "Idle" THEN "notready" ELSE "write"]
    /\ counter' = [counter EXCEPT ![c] = 0]
    /\ retval' = [retval EXCEPT ![c] = FALSE]
    /\ ret' = [ret EXCEPT ![c] = FALSE]
    /\ result' = [result EXCEPT ![c] = 0]
    /\ data' = [data EXCEPT ![c] = <<>>]
    /\ adu' = [adu EXCEPT ![c] = <<>>]
    /\ path' = [path EXCEPT ![c] = "none"]
    /\ sentOk' = [sentOk EXCEPT ![c] = FALSE]
    /\ solo' = [d \in Callers |->
                  IF d = c THEN \A e \in Callers \ {c} : ~Busy(e)
                  ELSE IF pc[d] = "idle" THEN solo[d] ELSE FALSE]
    /\ quiet' = (epc = "wait")
    /\ seen' = "none"
    /\ UNCHANGED <<hndl, transactionIdentifier, wire, outstanding, hungup,
                   epollVars, active, faults, lab>>

\* lines 375-377: readArray[0] = NotReadyReason(hndl); return false
NotReady(c) ==
    /\ pc[c] = "notready"
    /\ result' = [result EXCEPT ![c] = NotReadyReason(hndl)]
    /\ ret' = [ret EXCEPT ![c] = FALSE]
    /\ path' = [path EXCEPT ![c] = "notready"]
    /\ pc' = [pc EXCEPT ![c] = "done"]
    /\ UNCHANGED <<hndl, transactionIdentifier, fc, timeout, counter, retval,
                   data, adu, req, nreq, solo, quiet, sentOk, wire,
                   outstanding, hungup, epollVars, active, faults, seen, lab>>

\* line 381 and ModBusWrite up to the call of SendToSlave
Write(c) ==
    /\ pc[c] = "write"
    /\ hndl' = [hndl EXCEPT !.isCFG = FALSE, !.state = "SendingRequest",
                            !.pduLength = 0]
    /\ \E stack \in StackContents :
          adu' = [adu EXCEPT ![c] =
                    BuildAdu(hndl.type, transactionIdentifier,
                             RequestPdu(fc[c], req[c]), 6, stack)]
    /\ pc' = [pc EXCEPT ![c] = "send"]
    /\ UNCHANGED <<transactionIdentifier, fc, timeout, counter, retval, ret,
                   result, data, req, nreq, path, solo, quiet, sentOk, wire,
                   outstanding, hungup, epollVars, active, faults, seen, lab>>

\* SendToSlave: send() takes the whole frame, the slave can answer from now
SendOk(c) ==
    /\ pc[c] = "send"
    /\ sentOk' = [sentOk EXCEPT ![c] = TRUE]
    /\ outstanding' = outstanding \cup
          {[req |-> req[c], fc |-> fc[c],
            tid |-> Rd(adu[c], 0) * 256 + Rd(adu[c], 1)]}
    /\ adu' = [adu EXCEPT ![c] = <<>>]
    /\ pc' = [pc EXCEPT ![c] = "sent"]
    /\ UNCHANGED <<hndl, transactionIdentifier, fc, timeout, counter, retval,
                   ret, result, data, req, nreq, path, solo, quiet, wire,
                   hungup, epollVars, active, faults, seen, lab>>

\* a variant that has used up a transaction identifier when the send fails;
\* the property of C13 must reject it
SendFailCounted(c) ==
    /\ pc[c] = "send"
    /\ hndl' = [hndl EXCEPT !.state = "Idle",
                            !.transactionId = transactionIdentifier]
    /\ transactionIdentifier' = (transactionIdentifier + 1) % Word
    /\ result' = [result EXCEPT ![c] = MESSAGE_SEND_FAIL]
    /\ ret' = [ret EXCEPT ![c] = FALSE]
    /\ path' = [path EXCEPT ![c] = "sendfail"]
    /\ adu' = [adu EXCEPT ![c] = <<>>]
    /\ pc' = [pc EXCEPT ![c] = "done"]
    /\ UNCHANGED <<fc, timeout, counter, retval, data,
                   req, nreq, solo, quiet, sentOk, wire, outstanding,
                   hungup, epollVars, active, faults, seen, lab>>

\* SendToSlave lines 1173-1177 and the primitive's MESSAGE_SEND_FAIL return
SendFail(c) ==
    /\ pc[c] = "send"
    /\ hndl' = [hndl EXCEPT !.state = "Idle"]
    /\ result' = [result EXCEPT ![c] = MESSAGE_SEND_FAIL]
    /\ ret' = [ret EXCEPT ![c] = FALSE]
    /\ path' = [path EXCEPT ![c] = "sendfail"]
    /\ adu' = [adu EXCEPT ![c] = <<>>]
    /\ pc' = [pc EXCEPT ![c] = "done"]
    /\ UNCHANGED <<transactionIdentifier, fc, timeout, counter, retval, data,
                   req, nreq, solo, quiet, sentOk, wire, outstanding,
                   hungup, epollVars, active, faults, seen, lab>>

\* SendToSlave lines 1169-1171
Sent(c) ==
    /\ pc[c] = "sent"
    /\ hndl' = [hndl EXCEPT !.transactionId = transactionIdentifier,
                            !.state = "WaitingForResponse"]
    /\ transactionIdentifier' = (transactionIdentifier + 1) % Word
    /\ pc' = [pc EXCEPT ![c] = "wait"]
    /\ UNCHANGED <<fc, timeout, counter, retval, ret, result, data, adu, req,
                   nreq, path, solo, quiet, sentOk, wire, outstanding, hungup,
                   epollVars, active, faults, seen, lab>>

\* variant of WaitOver that keeps waiting after a failed transaction
WaitOverNoFailure(state) == state \in {"DataReceived", "Disconnected"}

\* WaitForData line 1407: the states that end the wait
WaitOver(state) == state \in {"DataReceived", "TransactionFailed", "Disconnected"}

\* a variant without the test for timeout 0; the property of C16 must
\* reject it
TimedOutAtZero(t, cnt) == cnt >= t

\* WaitForData line 1414: timeout > 0 && counter++ > timeout
TimedOut(t, cnt) == t > 0 /\ cnt > t

\* WaitForData line 1410: the nanosleep of one turn, in nanoseconds; the
\* timeout parameter is in milliseconds
PollSleepNs == 100000
NsPerMs == 1000 * 1000

\* one turn of the polling loop of WaitForData (nanosleep, then the timeout
\* test); counter is the number of sleeps of a call with a timeout
Poll(c) ==
    /\ pc[c] = "wait"
    /\ IF WaitOver(hndl.state) \/ TimedOut(timeout[c], counter[c])
       THEN pc' = [pc EXCEPT ![c] = "wfdcheck"]
       ELSE pc' = pc
    /\ counter' = [counter EXCEPT ![c] =
                     IF ~WaitOver(hndl.state) /\ timeout[c] > 0
                     THEN counter[c] + 1 ELSE counter[c]]
    /\ UNCHANGED <<hndl, transactionIdentifier, fc, timeout, retval, ret,
                   result, data, adu, req, nreq, path, solo, quiet, sentOk,
                   wire, outstanding, hungup, epollVars, active, faults, seen, lab>>

\* WaitForData lines 1420-1423
WfdCheck(c) ==
    /\ pc[c] = "wfdcheck"
    /\ retval' = [retval EXCEPT ![c] = (hndl.state = "DataReceived")]
    /\ pc' = [pc EXCEPT ![c] = "wfdidle"]
    /\ UNCHANGED <<hndl, transactionIdentifier, fc, timeout, counter, ret,
                   result, data, adu, req, nreq, path, solo, quiet, sentOk,
                   wire, outstanding, hungup, epollVars, active, faults, seen, lab>>

\* a variant that leaves the state as the wait found it; the property of C4
\* must reject it
WaitForDataExitKeep(h) == h

\* WaitForData line 1425: the handle when the wait ends
WaitForDataExit(h) == [h EXCEPT !.state = "Idle"]

\* WaitForData lines 1425-1427, and the MODBUS_TIMEOUT return of the primitive
WfdIdle(c) ==
    /\ pc[c] = "wfdidle"
    /\ hndl' = WaitForDataExit(hndl)
    /\ IF retval[c]
       THEN /\ pc' = [pc EXCEPT ![c] = "examine"]
            /\ UNCHANGED <<result, ret, path>>
       ELSE /\ pc' = [pc EXCEPT ![c] = "done"]
            /\ result' = [result EXCEPT ![c] = MODBUS_TIMEOUT]
            /\ ret' = [ret EXCEPT ![c] = FALSE]
            /\ path' = [path EXCEPT ![c] = "timeout"]
    /\ UNCHANGED <<transactionIdentifier, fc, timeout, counter, retval, data,
                   adu, req, nreq, solo, quiet, sentOk, wire, outstanding,
                   hungup, epollVars, active, faults, seen, lab>>

\* a variant that takes the byte count for payload; the property of C12
\* must reject it
PduDataLengthFromCount(h) == (h.pduLength - PDU_HEADER_LENGTH + 1 + Word) % Word

\* PduDataLength: (uint16_t)(hndl->pduLength - PDU_HEADER_LENGTH)
PduDataLength(h) == (h.pduLength - PDU_HEADER_LENGTH + Word) % Word

\* a variant that takes any response without exception bit for the answer;
\* the property of C10 must reject it
ExamineResponseAnyCode(h, fCode) ==
    IF Rd(h.pdu, 1) >= MODBUS_EXCEPTION_BIT
    THEN [ret |-> FALSE, result |-> Rd(h.pdu, 2), data |-> <<>>,
          path |-> "exception"]
    ELSE [ret |-> TRUE, result |-> 0,
          data |-> Bytes(h.pdu, WRITE_RESPONSE_START, WRITE_RESPONSE_BYTES),
          path |-> "success"]

\* a variant that reports the function code byte of an exception response
\* instead of its exception byte; the property of C11 must reject it
ExamineResponseCodeByte(h, fCode) ==
    IF Rd(h.pdu, 1) >= MODBUS_EXCEPTION_BIT
    THEN [ret |-> FALSE, result |-> Rd(h.pdu, 1), data |-> <<>>,
          path |-> "exception"]
    ELSE IF Rd(h.pdu, 1) # fCode
    THEN [ret |-> FALSE, result |-> INVALID_RESPONSE, data |-> <<>>,
          path |-> "mismatch"]
    ELSE [ret |-> TRUE, result |-> 0,
          data |-> Bytes(h.pdu, WRITE_RESPONSE_START, WRITE_RESPONSE_BYTES),
          path |-> "success"]

\* lines 396-414 (ReadCoils) and 622-639 (WriteSingleCoil): what the
\* primitive makes of the PDU buffer once WaitForData has returned true
ExamineResponse(h, fCode) ==
    IF Rd(h.pdu, 1) >= MODBUS_EXCEPTION_BIT
    THEN [ret |-> FALSE, result |-> Rd(h.pdu, 2), data |-> <<>>,
          path |-> "exception"]
    ELSE IF Rd(h.pdu, 1) # fCode
    THEN [ret |-> FALSE, result |-> INVALID_RESPONSE, data |-> <<>>,
          path |-> "mismatch"]
    ELSE IF fCode = READ_COILS
    THEN [ret |-> TRUE, result |-> 0,
          data |-> Bytes(h.pdu, PDU_HEADER_LENGTH,
                         Min(PduDataLength(h), MAX_PDU_LENGTH - PDU_HEADER_LENGTH)),
          path |-> IF PduDataLength(h) > MAX_PDU_LENGTH - PDU_HEADER_LENGTH
                   THEN "overrun" ELSE "success"]
    ELSE [ret |-> TRUE, result |-> 0,
          data |-> Bytes(h.pdu, WRITE_RESPONSE_START, WRITE_RESPONSE_BYTES),
          path |-> "success"]

\* A memcpy of more bytes than the PDU buffer holds (path "overrun") reads
\* and writes past the buffers: the call returns with the bytes of the
\* buffer in front of whatever follows it, or the process is stopped.
Examine(c) ==
    /\ pc[c] = "examine"
    /\ LET r == ExamineResponse(hndl, fc[c])
       IN  /\ ret' = [ret EXCEPT ![c] = r.ret]
           /\ result' = [result EXCEPT ![c] = r.result]
           /\ data' = [data EXCEPT ![c] = r.data]
           /\ path' = [path EXCEPT ![c] = r.path]
           /\ \E end \in {"done"} \cup (IF r.path = "overrun" THEN {"crashed"} ELSE {}) :
                 pc' = [pc EXCEPT ![c] = end]
    /\ UNCHANGED <<hndl, transactionIdentifier, fc, timeout, counter, retval,
                   adu, req, nreq, solo, quiet, sentOk, wire, outstanding,
                   hungup, epollVars, active, faults, seen, lab>>

\* ------------------------------------------------------------------------
\* EpollThread: the delivery flow
\* ------------------------------------------------------------------------
\* a caller is in the polling loop of WaitForData and its time is not up
InTime == \E c \in Callers : pc[c] = "wait" /\ ~TimedOut(timeout[c], counter[c])

\* in the specification of split receives recv may return the first
\* SplitSize bytes of what is available
SplitSize == 5

SplitSizes == IF lab.kind = "split" THEN {SplitSize} ELSE {}

\* recv returns what is available, up to sizeof(message), or a first part
ChunkSizes(avail) ==
    {Min(avail, MAX_PDU_LENGTH)}
    \cup {n \in PartialSizes \cup SplitSizes : n < avail}

\* epoll_wait reports the handle readable (and hung up, if the peer has):
\* ModBusRead receives a chunk and MessageHandler consumes it.  A receive
\* after the peer has closed with nothing left to read returns 0 bytes.
EpollRead ==
    /\ epc = "wait"
    /\ hndl.state # "Disconnected"
    /\ wire # <<>> \/ hungup
    /\ \E n \in ChunkSizes(Len(wire)) :
          LET r == MessageHandler(hndl, SubSeq(wire, 1, n), n)
          IN  /\ hndl' = r.h
              /\ wire' = SubSeq(wire, n + 1, Len(wire))
              /\ mhsState' = r.ret
              /\ epc' = IF r.ret # "waiting" THEN "setstate"
                        ELSE IF hungup THEN "hup" ELSE "wait"
              /\ seen' = IF InTime /\ hndl.state = "WaitingForResponse"
                             /\ r.note # "pending"
                          THEN r.note ELSE seen
    /\ evHup' = hungup
    /\ quiet' = FALSE
    /\ UNCHANGED <<transactionIdentifier, callerVars, outstanding, hungup, lab>>

\* lines 1050-1057
EpollSetState ==
    /\ epc = "setstate"
    /\ hndl' = [hndl EXCEPT !.state = IF mhsState = "success" THEN "DataReceived"
                                      ELSE "TransactionFailed"]
    /\ epc' = IF evHup THEN "hup" ELSE "wait"
    /\ quiet' = FALSE
    /\ UNCHANGED <<transactionIdentifier, callerVars, wire, outstanding, hungup,
                   mhsState, evHup, seen, lab>>

\* variant of EpollHup that leaves the state as it is
EpollHupKeep ==
    /\ epc = "hup"
    /\ epc' = "wait"
    /\ quiet' = FALSE
    /\ UNCHANGED <<hndl, transactionIdentifier, callerVars, wire, outstanding,
                   hungup, mhsState, evHup, seen, lab>>

\* lines 1059-1063
EpollHup ==
    /\ epc = "hup"
    /\ hndl' = [hndl EXCEPT !.state = "Disconnected"]
    /\ epc' = "wait"
    /\ quiet' = FALSE
    /\ UNCHANGED <<transactionIdentifier, callerVars, wire, outstanding, hungup,
                   mhsState, evHup, seen, lab>>

\* ------------------------------------------------------------------------
\* Environment: the slave and the connection
\* ------------------------------------------------------------------------
OtherCode(fCode) == IF fCode = READ_COILS THEN WRITE_SINGLE_COIL ELSE READ_COILS

\* the response PDU (slave id, function code, data) to request r
ResponsePdu(kind, r) ==
    LET fCode == IF kind = "wrongfc" THEN OtherCode(r.fc) ELSE r.fc
    IN  IF kind = "exception"
        THEN <<SlaveId, r.fc + MODBUS_EXCEPTION_BIT, ILLEGAL_DATA_ADDRESS>>
        ELSE IF fCode = READ_COILS
        THEN <<SlaveId, READ_COILS, 1, r.req>>
        ELSE <<SlaveId, WRITE_SINGLE_COIL, (r.req \div 256) % 256, r.req % 256,
               255, 0>>

\* the response as framed for the transport of the handle
ResponseFrame(type, kind, r) ==
    LET pdu == ResponsePdu(kind, r)
        n == Len(pdu)
    IN  IF type = "tcp"
        THEN <<(r.tid \div 256) % 256, r.tid % 256, 0, 0, 0, n>> \o pdu
        ELSE IF type = "rtu"
        THEN <<2, 1, MESSAGE_HEADER_LENGTH, 0>> \o pdu
        ELSE LET f == AddCRC(pdu, n, n + CRC_FOOTER_LENGTH)
             IN  IF kind = "badcrc"
                 THEN [k \in 1..(n + CRC_FOOTER_LENGTH) |->
                          IF k = n + 2 THEN Xor(f[k], 1) ELSE f[k]]
                 ELSE f

ResponseKinds(type) ==
    {"ok"} \cup (faults \ (IF type = "rtuOverTcp" THEN {} ELSE {"badcrc"}))

\* the slave answers a request it has received
SlaveRespond ==
    /\ ~hungup
    /\ \E r \in outstanding, kind \in ResponseKinds(hndl.type) :
          /\ wire' = wire \o ResponseFrame(hndl.type, kind, r)
          /\ outstanding' = outstanding \ {r}
    /\ UNCHANGED <<hndl, transactionIdentifier, callerVars, quiet, hungup,
                   epollVars, seen, lab>>

\* the peer closes the connection
Hangup ==
    /\ ~hungup
    /\ hungup' = TRUE
    /\ UNCHANGED <<hndl, transactionIdentifier, callerVars, quiet, wire,
                   outstanding, epollVars, seen, lab>>

\* ------------------------------------------------------------------------
\* Specification
\* ------------------------------------------------------------------------
Next ==
    \/ \E c \in Callers : Call(c)
    \/ \E c \in Callers : NotReady(c)
    \/ \E c \in Callers : Write(c)
    \/ \E c \in Callers : SendOk(c)
    \/ \E c \in Callers : SendFail(c)
    \/ \E c \in Callers : Sent(c)
    \/ \E c \in Callers : Poll(c)
    \/ \E c \in Callers : WfdCheck(c)
    \/ \E c \in Callers : WfdIdle(c)
    \/ \E c \in Callers : Examine(c)
    \/ EpollRead
    \/ EpollSetState
    \/ EpollHup
    \/ SlaveRespond
    \/ Hangup

Faults == {"wrongfc", "exception", "badcrc"}

Init == \E c \in Callers : InitWith({c}, Timeouts, Faults)

Spec == Init /\ [][Next]_vars

\* one caller thread with a timeout, a slave without faults, and receives
\* that may return a part of what has arrived
InitSplit ==
    /\ Quiescent({1}, {1}, {})
    /\ \E t \in Types :
          /\ hndl = NewHandle(t)
          /\ transactionIdentifier = IF t = "rtu" THEN 1 ELSE 0
    /\ lab = [kind |-> "split"]

SpecSplit == InitSplit /\ [][Next]_vars

InitMT == InitWith(Callers, {1}, {})

\* two threads on a handle whose slave stays silent
NextMT ==
    \/ \E c \in Callers : Call(c)
    \/ \E c \in Callers : NotReady(c)
    \/ \E c \in Callers : Write(c)
    \/ \E c \in Callers : SendOk(c)
    \/ \E c \in Callers : SendFail(c)
    \/ \E c \in Callers : Sent(c)
    \/ \E c \in Callers : Poll(c)
    \/ \E c \in Callers : WfdCheck(c)
    \/ \E c \in Callers : WfdIdle(c)
    \/ EpollRead
    \/ EpollHup
    \/ Hangup

SpecMT == InitMT /\ [][NextMT]_vars

\* ------------------------------------------------------------------------
\* MessageHandler on its own: one response frame fed in chunks of any size
\* ------------------------------------------------------------------------
\* the handle of the first request once SendToSlave has returned
AwaitingHandle(t) ==
    [NewHandle(t) EXCEPT !.isCFG = FALSE, !.pduLength = 0,
                         !.transactionId = IF t = "rtu" THEN 1 ELSE 0,
                         !.state = "WaitingForResponse"]

FeedKinds == {"ok", "exception"}

InitFeed ==
    /\ Quiescent({}, {0}, {})
    /\ \E t \in Types, f \in {READ_COILS, WRITE_SINGLE_COIL},
          kind \in FeedKinds, n \in 1..MaxCalls :
          LET frame == ResponseFrame(t, kind,
                          [req |-> n, fc |-> f, tid |-> AwaitingHandle(t).transactionId])
          IN  /\ hndl = AwaitingHandle(t)
              /\ transactionIdentifier = AwaitingHandle(t).transactionId + 1
              /\ lab = [kind |-> "feed", frame |-> frame, rest |-> frame,
                        rets |-> <<>>]

\* EpollThread lines 1049-1057 on the next n bytes of the frame
FeedChunk ==
    /\ lab.kind = "feed"
    /\ lab.rest # <<>>
    /\ \E n \in 1..Len(lab.rest) :
          LET r == MessageHandler(hndl, SubSeq(lab.rest, 1, n), n)
          IN  /\ hndl' = [r.h EXCEPT !.state =
                            IF r.ret = "success" THEN "DataReceived"
                            ELSE IF r.ret = "failure" THEN "TransactionFailed"
                            ELSE @]
              /\ lab' = [lab EXCEPT !.rest = SubSeq(@, n + 1, Len(@)),
                                    !.rets = Append(@, r.ret)]
    /\ UNCHANGED <<transactionIdentifier, callerVars, quiet, seen, wire,
                   outstanding, hungup, epollVars>>

SpecFeed == InitFeed /\ [][FeedChunk]_vars

\* ------------------------------------------------------------------------
\* The transaction check of MessageHandler on its own
\* ------------------------------------------------------------------------
IdSamples == {0, 1, 2, Word - 2, Word - 1}

InitIds ==
    /\ Quiescent({}, {0}, {})
    /\ hndl = NewHandle("tcp")
    /\ transactionIdentifier = 0
    /\ \E rx \in IdSamples, tx \in IdSamples, last \in IdSamples :
          lab = [kind |-> "ids", rx |-> rx, tx |-> tx, last |-> last,
                 class |-> "none"]

Classify ==
    /\ lab.kind = "ids"
    /\ lab.class = "none"
    /\ lab' = [lab EXCEPT !.class = TransactionCheck(lab.rx, lab.tx, lab.last)]
    /\ UNCHANGED <<hndl, transactionIdentifier, callerVars, quiet, seen, wire,
                   outstanding, hungup, epollVars>>

SpecIds == InitIds /\ [][Classify]_vars

\* ------------------------------------------------------------------------
\* ReadFile and WriteFile: one call with one file sub-request
\* ------------------------------------------------------------------------
READ_FILE == 20
WRITE_FILE == 21

FileNumbers == {0, 4, 7}
RecordNumbers == {0, 9990, 9999, 10000}
RecordLengths == {1, 2, 10, 122}

\* ReadFileSubRequestBuilder / WriteFileSubRequestBuilder from index 0: the
\* sub-request, for WriteFile followed by the records (here all zero)
SubRequest(op, fileNumber, recordNumber, recordLength) ==
    <<6, (fileNumber \div 256) % 256, fileNumber % 256,
      (recordNumber \div 256) % 256, recordNumber % 256, 0, recordLength>>
    \o (IF op = WRITE_FILE THEN [i \in 1..(2 * recordLength) |-> 0] ELSE <<>>)

\* the modbusMessage of ReadFile (lines 827-833) and WriteFile (914-918)
FileMessage(op, messageArray) ==
    <<SlaveId, op, Len(messageArray) % 256>> \o messageArray

InitFile ==
    /\ Quiescent({1}, {0}, {})
    /\ \E t \in Types :
          /\ hndl = NewHandle(t)
          /\ transactionIdentifier = IF t = "rtu" THEN 1 ELSE 0
    /\ \E op \in {READ_FILE, WRITE_FILE}, f \in FileNumbers,
          r \in RecordNumbers, n \in RecordLengths :
          lab = [kind |-> "file", op |-> op, fileNumber |-> f,
                 recordNumber |-> r, recordLength |-> n]

\* ReadFile lines 817-852, WriteFile lines 906-921: the state test, and for
\* ReadFile the test of the message length; no test of the sub-request
FileCall(c) ==
    /\ lab.kind = "file"
    /\ c \in active
    /\ pc[c] = "idle"
    /\ LET messageLength ==
              Len(SubRequest(lab.op, lab.fileNumber, lab.recordNumber,
                             lab.recordLength)) % 256
       IN  IF hndl.state # "Idle"
           THEN /\ pc' = [pc EXCEPT ![c] = "done"]
                /\ result' = [result EXCEPT ![c] = NotReadyReason(hndl)]
                /\ path' = [path EXCEPT ![c] = "notready"]
           ELSE IF lab.op = READ_FILE /\ ~(messageLength < MAX_PDU_LENGTH)
           THEN /\ pc' = [pc EXCEPT ![c] = "done"]
                /\ result' = [result EXCEPT ![c] = MESSAGE_SEND_FAIL]
                /\ path' = [path EXCEPT ![c] = "toolong"]
           ELSE /\ pc' = [pc EXCEPT ![c] = "filewrite"]
                /\ UNCHANGED <<result, path>>
    /\ nreq' = nreq + 1
    /\ req' = [req EXCEPT ![c] = nreq + 1]
    /\ UNCHANGED <<hndl, transactionIdentifier, fc, timeout, counter, retval,
                   ret, data, adu, solo, quiet, sentOk, wire, outstanding,
                   hungup, epollVars, active, faults, seen, lab>>

\* ModBusWrite (lines 1070-1113) on the file request, up to SendToSlave
FileWrite(c) ==
    /\ lab.kind = "file"
    /\ pc[c] = "filewrite"
    /\ hndl' = [hndl EXCEPT !.isCFG = FALSE, !.state = "SendingRequest",
                            !.pduLength = 0]
    /\ LET m == FileMessage(lab.op, SubRequest(lab.op, lab.fileNumber,
                               lab.recordNumber, lab.recordLength))
       IN  \E stack \in StackContents :
              adu' = [adu EXCEPT ![c] =
                        BuildAdu(hndl.type, transactionIdentifier, m, Len(m),
                                 stack)]
    /\ pc' = [pc EXCEPT ![c] = "send"]
    /\ UNCHANGED <<transactionIdentifier, fc, timeout, counter, retval, ret,
                   result, data, req, nreq, path, solo, quiet, sentOk, wire,
                   outstanding, hungup, epollVars, active, faults, seen, lab>>

NextFile ==
    \/ \E c \in Callers : FileCall(c)
    \/ \E c \in Callers : FileWrite(c)
    \/ \E c \in Callers : SendOk(c)
    \/ \E c \in Callers : SendFail(c)
    \/ \E c \in Callers : Sent(c)

SpecFile == InitFile /\ [][NextFile]_vars

\* ------------------------------------------------------------------------
\* ModbusClose: the handle is released while its connection may deliver
\* ------------------------------------------------------------------------
\* lab.registered: the descriptor is in the epoll set with data.ptr = hndl
\* lab.open: the descriptor is open;  lab.freed: free(hndl) was called
\* lab.stale: EpollThread was handed an event whose data.ptr is freed
InitClose ==
    /\ Quiescent({1}, {1}, {})
    /\ \E t \in Types :
          /\ hndl = NewHandle(t)
          /\ transactionIdentifier = IF t = "rtu" THEN 1 ELSE 0
    /\ lab = [kind |-> "close", registered |-> TRUE, open |-> TRUE,
              freed |-> FALSE, stale |-> FALSE]

\* ModbusClose lines 330-346, called between two primitive calls
ModbusClose ==
    /\ lab.kind = "close"
    /\ ~lab.freed
    /\ \A c \in Callers : ~Busy(c)
    /\ lab' = IF hndl.type = "tcp"
              THEN [lab EXCEPT !.registered = FALSE, !.open = FALSE,
                               !.freed = TRUE]
              ELSE [lab EXCEPT !.freed = TRUE]
    /\ UNCHANGED <<hndl, transactionIdentifier, callerVars, quiet, seen, wire,
                   outstanding, hungup, epollVars>>

\* epoll_wait (line 1021) reports the descriptor of a released handle:
\* lines 1032-1035 read, and the lines after them write, freed memory
EpollStale ==
    /\ lab.kind = "close"
    /\ lab.freed /\ lab.registered /\ lab.open
    /\ wire # <<>> \/ hungup
    /\ ~lab.stale
    /\ lab' = [lab EXCEPT !.stale = TRUE]
    /\ UNCHANGED <<hndl, transactionIdentifier, callerVars, quiet, seen, wire,
                   outstanding, hungup, epollVars>>

\* the peer may answer late or hang up at any time; the program's own steps
\* need the handle
NextClose ==
    \/ ~lab.freed /\ \E c \in Callers : Call(c)
    \/ ~lab.freed /\ \E c \in Callers : NotReady(c)
    \/ ~lab.freed /\ \E c \in Callers : Write(c)
    \/ ~lab.freed /\ \E c \in Callers : SendOk(c)
    \/ ~lab.freed /\ \E c \in Callers : SendFail(c)
    \/ ~lab.freed /\ \E c \in Callers : Sent(c)
    \/ ~lab.freed /\ \E c \in Callers : Poll(c)
    \/ ~lab.freed /\ \E c \in Callers : WfdCheck(c)
    \/ ~lab.freed /\ \E c \in Callers : WfdIdle(c)
    \/ ~lab.freed /\ \E c \in Callers : Examine(c)
    \/ ~lab.freed /\ EpollRead
    \/ ~lab.freed /\ EpollSetState
    \/ ~lab.freed /\ EpollHup
    \/ SlaveRespond
    \/ Hangup
    \/ ModbusClose
    \/ EpollStale

SpecClose == InitClose /\ [][NextClose]_vars

\* ------------------------------------------------------------------------
\* The CRC functions on their own: a message of inputLength bytes in a
\* buffer of maxInputLength bytes gets its CRC (AddCRC), one byte of the
\* result may be changed, and the result is validated (ValidateCRC)
\* ------------------------------------------------------------------------
MaxCrcLen == 3
CrcBytes == {0, 1, 255}
CrcMessages == UNION {[1..n -> CrcBytes] : n \in 0..MaxCrcLen}

\* the caller's buffer: the message followed by zero bytes
CrcBuffer(b, size) == [k \in 1..size |-> IF k <= Len(b) THEN b[k] ELSE 0]

InitCrc ==
    /\ Quiescent({}, {0}, {})
    /\ hndl = NewHandle("rtuOverTcp")
    /\ transactionIdentifier = 0
    /\ \E b \in CrcMessages, room \in {1, 2} :
          lab = [kind |-> "crc", stage |-> "in", b |-> b,
                 inputLength |-> Len(b), maxInputLength |-> Len(b) + room,
                 message |-> CrcBuffer(b, Len(b) + room),
                 ok |-> FALSE, changed |-> FALSE, valid |-> FALSE]

CrcAppend ==
    /\ lab.kind = "crc"
    /\ lab.stage = "in"
    /\ lab' = [lab EXCEPT
                 !.stage = "added",
                 !.ok = (lab.inputLength + 2 <= lab.maxInputLength),
                 !.message = AddCRC(lab.message, lab.inputLength,
                                    lab.maxInputLength)]
    /\ UNCHANGED <<hndl, transactionIdentifier, callerVars, quiet, seen, wire,
                   outstanding, hungup, epollVars>>

CrcChange ==
    /\ lab.kind = "crc"
    /\ lab.stage = "added"
    /\ lab.ok
    /\ ~lab.changed
    /\ \E i \in 0..(lab.inputLength + 1), v \in 0..255 :
          /\ v # Rd(lab.message, i)
          /\ lab' = [lab EXCEPT !.changed = TRUE,
                                !.message = MemCpy(lab.message, i, <<v>>, 1)]
    /\ UNCHANGED <<hndl, transactionIdentifier, callerVars, quiet, seen, wire,
                   outstanding, hungup, epollVars>>

CrcValidate ==
    /\ lab.kind = "crc"
    /\ lab.stage = "added"
    /\ lab.ok
    /\ lab' = [lab EXCEPT
                 !.stage = "validated",
                 !.valid = ValidateCRC(lab.message, lab.inputLength + 2)]
    /\ UNCHANGED <<hndl, transactionIdentifier, callerVars, quiet, seen, wire,
                   outstanding, hungup, epollVars>>

NextCrc == CrcAppend \/ CrcChange \/ CrcValidate

SpecCrc == InitCrc /\ [][NextCrc]_vars

\* ------------------------------------------------------------------------
\* The length table on its own: GetFcodeLength of the A7 master and of the
\* M4 receiver applied to a function-code byte and a length byte (both
\* uint8_t)
\* ------------------------------------------------------------------------
FcodeBytes == 0..255
LengthBytes == {0, 1, 2, 250, 255}

InitLen ==
    /\ Quiescent({}, {0}, {})
    /\ hndl = NewHandle("tcp")
    /\ transactionIdentifier = 0
    /\ \E fCode \in FcodeBytes, dataLength \in LengthBytes :
          lab = [kind |-> "len", fCode |-> fCode, dataLength |-> dataLength,
                 called |-> FALSE, length |-> 0, lengthM4 |-> 0]

LookupLength ==
    /\ lab.kind = "len"
    /\ ~lab.called
    /\ lab' = [lab EXCEPT !.called = TRUE,
                          !.length = GetFcodeLength(lab.fCode, lab.dataLength),
                          !.lengthM4 = GetFcodeLengthM4(lab.fCode, lab.dataLength)]
    /\ UNCHANGED <<hndl, transactionIdentifier, callerVars, quiet, seen, wire,
                   outstanding, hungup, epollVars>>

SpecLen == InitLen /\ [][LookupLength]_vars

\* ------------------------------------------------------------------------
\* Framing of a request on a TCP handle whose transaction counter has been
\* advanced by earlier requests (transactionIdentifier is a uint16_t that
\* SendToSlave increments on every send)
\* ------------------------------------------------------------------------
TidSamples == {0, 1, 255, 256, 4660, Word - 1}

InitFrame ==
    /\ Quiescent({1}, {0}, {})
    /\ hndl = NewHandle("tcp")
    /\ transactionIdentifier \in TidSamples
    /\ \E op \in {READ_FILE, WRITE_FILE}, f \in FileNumbers,
          r \in RecordNumbers, n \in RecordLengths :
          lab = [kind |-> "file", op |-> op, fileNumber |-> f,
                 recordNumber |-> r, recordLength |-> n]

SpecFrame == InitFrame /\ [][NextFile]_vars

\* ------------------------------------------------------------------------
\* WriteMultipleCoils: the request it builds and the length it hands to
\* ModBusWrite
\* ------------------------------------------------------------------------
WRITE_MULTIPLE_COILS == 15
MaxCoils == 1968
CoilAddresses == {0, 4660}
BitSeeds == {0, 165}

\* the caller's bitArray: as many bytes as the coils need, none of them alike
BitArray(seed, numToWrite) ==
    [k \in 1..((numToWrite + 7) \div 8) |-> (seed + 37 * k) % 256]

\* line 694: the conditional operator binds less tightly than the sum, so
\* the value is 1 whenever numToWrite / 8 + (numToWrite & 7) is not zero
DataByteCount(numToWrite) ==
    (IF (numToWrite \div 8) + (numToWrite % 8) # 0 THEN 1 ELSE 0) % 256

\* lines 704-709: SET_MODBUS_HEADER, the byte count, memcpy of the data
CoilsMessage(slaveID, address, numToWrite, bitArray) ==
    <<slaveID, WRITE_MULTIPLE_COILS, (address \div 256) % 256, address % 256,
      (numToWrite \div 256) % 256, numToWrite % 256,
      DataByteCount(numToWrite)>>
    \o Bytes(bitArray, 0, DataByteCount(numToWrite))

InitCoils ==
    /\ Quiescent({}, {0}, {})
    /\ hndl = NewHandle("tcp")
    /\ transactionIdentifier = 0
    /\ \E n \in 1..MaxCoils, a \in CoilAddresses, s \in BitSeeds :
          lab = [kind |-> "coils", numToWrite |-> n, address |-> a,
                 bitArray |-> BitArray(s, n), called |-> FALSE,
                 modBusMessage |-> <<>>, packetLength |-> 0]

\* WriteMultipleCoils lines 690-712 on an idle handle, up to ModBusWrite
CoilsCall ==
    /\ lab.kind = "coils"
    /\ ~lab.called
    /\ hndl.state = "Idle"
    /\ lab' = [lab EXCEPT
                 !.called = TRUE,
                 !.modBusMessage = CoilsMessage(SlaveId, lab.address,
                                      lab.numToWrite, lab.bitArray),
                 !.packetLength = (7 + DataByteCount(lab.numToWrite)) % Word]
    /\ UNCHANGED <<hndl, transactionIdentifier, callerVars, quiet, seen, wire,
                   outstanding, hungup, epollVars>>

SpecCoils == InitCoils /\ [][CoilsCall]_vars

\* ------------------------------------------------------------------------
\* The delivery flow on a stream of frames: a handle that waits for the
\* response to request transactionId, after earlier requests (some of which
\* timed out), receives one or more frames back to back, cut into chunks by
\* recv as the connection delivers them
\* ------------------------------------------------------------------------
MaxFrames == 2
MaxSplit == 24
BigChunk == 128
FailWindow == 2

\* the PDU left in the handle by the last completed request
OldPdu == <<SlaveId, READ_COILS, 1, 99>>

\* (transactionId, lastTransactionId) of the waiting handle: plain, just
\* before the wrap of the counter, and just after it
IdPairs == {<<5, 3>>, <<Word - 1, Word - 3>>, <<1, Word - 2>>}

StreamHandle(t, tx, last) ==
    [NewHandle(t) EXCEPT !.isCFG = FALSE, !.pduLength = 0, !.pdu = OldPdu,
                         !.transactionId = tx, !.lastTransactionId = last,
                         !.state = "WaitingForResponse"]

StreamKinds(t) ==
    {"match", "exception", "long", "unknown"}
    \cup (IF t = "tcp" THEN {"stale", "future"} ELSE {})
    \cup (IF t = "rtuOverTcp" THEN {"badcrc"} ELSE {})

\* a ReadCoils response of 250 data bytes (2000 coils)
LongPdu == <<SlaveId, READ_COILS, 250>> \o [k \in 1..250 |-> k % 256]

\* a response whose function code (0x41) is not one GetFcodeLength knows
UnknownPdu == <<SlaveId, 65, 1, 7>>

\* one frame of the stream, as the slave sends it
StreamFrame(t, k, tx) ==
    IF k = "long"
    THEN IF t = "tcp"
         THEN <<(tx \div 256) % 256, tx % 256, 0, 0, 0, 253>> \o LongPdu
         ELSE IF t = "rtu"
         THEN <<2, 1, MESSAGE_HEADER_LENGTH, 0>> \o LongPdu
         ELSE AddCRC(LongPdu, 253, 255)
    ELSE IF k = "unknown"
    THEN IF t = "tcp"
         THEN <<(tx \div 256) % 256, tx % 256, 0, 0, 0, 4>> \o UnknownPdu
         ELSE IF t = "rtu"
         THEN <<2, 1, MESSAGE_HEADER_LENGTH, 0>> \o UnknownPdu
         ELSE AddCRC(UnknownPdu, 4, 6)
    ELSE ResponseFrame(t,
            IF k \in {"exception", "badcrc"} THEN k ELSE "ok",
            [req |-> IF k = "stale" THEN 8 ELSE IF k = "future" THEN 9 ELSE 7,
             fc |-> READ_COILS,
             tid |-> IF k = "stale" THEN (tx + Word - 1) % Word
                     ELSE IF k = "future" THEN (tx + 1) % Word
                     ELSE tx])

RECURSIVE StreamBytes(_, _, _)
StreamBytes(t, ks, tx) ==
    IF ks = <<>> THEN <<>>
    ELSE StreamFrame(t, Head(ks), tx) \o StreamBytes(t, Tail(ks), tx)

InitStream ==
    /\ Quiescent({}, {0}, {})
    /\ \E t \in Types, ids \in IdPairs, n \in 1..MaxFrames :
       \E ks \in [1..n -> StreamKinds(t)] :
          /\ t # "tcp" => ids = <<5, 3>>
          /\ hndl = StreamHandle(t, ids[1], ids[2])
          /\ transactionIdentifier = (ids[1] + 1) % Word
          /\ lab = [kind |-> "stream", frames |-> ks, pos |-> 0,
                    failed |-> FALSE, ret |-> "none", note |-> "none"]

\* the bytes of the stream that have not been received yet
StreamRest ==
    LET all == StreamBytes(hndl.type, lab.frames, hndl.transactionId)
    IN  SubSeq(all, lab.pos + 1, Len(all))

\* what recv may return of the bytes that are there: any first part of a
\* short run of bytes; of a long run, a part of BigChunk bytes or all that
\* fits sizeof(message)
StreamChunkSizes(avail) ==
    IF avail <= MaxSplit THEN 1..avail
    ELSE {Min(avail, BigChunk), Min(avail, MAX_PDU_LENGTH)}

\* one pass of EpollThread (lines 1049-1057): ModBusRead receives the next
\* bytes, MessageHandler consumes them, the state is set from its result
StreamChunk ==
    /\ lab.kind = "stream"
    /\ StreamRest # <<>>
    /\ \E n \in StreamChunkSizes(Len(StreamRest)) :
          LET r == MessageHandler(hndl, SubSeq(StreamRest, 1, n), n)
          IN  /\ hndl' = [r.h EXCEPT !.state =
                            IF r.ret = "success" THEN "DataReceived"
                            ELSE IF r.ret = "failure" THEN "TransactionFailed"
                            ELSE @]
              /\ lab' = [lab EXCEPT !.pos = @ + n,
                                    !.ret = r.ret, !.note = r.note]
    /\ UNCHANGED <<transactionIdentifier, callerVars, quiet, seen, wire,
                   outstanding, hungup, epollVars>>

\* the same pass when recv fails: ModBusRead line 1123 passes
\* (uint16_t)(-1) as the length (one failure, early in the stream)
StreamRecvFail ==
    /\ lab.kind = "stream"
    /\ ~lab.failed
    /\ lab.pos \in 1..FailWindow
    /\ LET r == MessageHandler(hndl, <<>>, Word - 1)
       IN  /\ hndl' = [r.h EXCEPT !.state =
                         IF r.ret = "success" THEN "DataReceived"
                         ELSE IF r.ret = "failure" THEN "TransactionFailed"
                         ELSE @]
           /\ lab' = [lab EXCEPT !.failed = TRUE,
                                 !.ret = r.ret, !.note = r.note]
    /\ UNCHANGED <<transactionIdentifier, callerVars, quiet, seen, wire,
                   outstanding, hungup, epollVars>>

NextStream == StreamChunk \/ StreamRecvFail

SpecStream == InitStream /\ [][NextStream]_vars

\* ------------------------------------------------------------------------
\* Two TCP handles used by two threads: the requests share the static
\* transactionIdentifier, which no lock protects.  lab.pc is the position of
\* each thread in ModBusWrite / SendToSlave, lab.hdr the identifier written
\* into the header of its frame, lab.tid the transactionId of its handle,
\* lab.tmp the value its increment has read, lab.calls its requests so far.
\* ------------------------------------------------------------------------
InitTwo ==
    /\ Quiescent({}, {0}, {})
    /\ hndl = NewHandle("tcp")
    /\ transactionIdentifier \in TidSamples
    /\ lab = [kind |-> "two",
              pc |-> [c \in Callers |-> "idle"],
              hdr |-> [c \in Callers |-> 0],
              tid |-> [c \in Callers |-> 0],
              tmp |-> [c \in Callers |-> 0],
              calls |-> [c \in Callers |-> 0]]

TwoUnchanged ==
    UNCHANGED <<hndl, callerVars, quiet, seen, wire, outstanding, hungup,
                epollVars>>

\* ModBusWrite lines 1079-1080: the header takes the current counter
TwoBuild(c) ==
    /\ lab.kind = "two"
    /\ lab.pc[c] = "idle"
    /\ lab.calls[c] < MaxCalls
    /\ lab' = [lab EXCEPT !.pc[c] = "send", !.hdr[c] = transactionIdentifier,
                          !.calls[c] = @ + 1]
    /\ UNCHANGED transactionIdentifier
    /\ TwoUnchanged

\* SendToSlave line 1167: send() takes the frame
TwoSendOk(c) ==
    /\ lab.kind = "two"
    /\ lab.pc[c] = "send"
    /\ lab' = [lab EXCEPT !.pc[c] = "sent"]
    /\ UNCHANGED transactionIdentifier
    /\ TwoUnchanged

\* SendToSlave lines 1173-1177: send() fails, the counter is left alone
TwoSendFail(c) ==
    /\ lab.kind = "two"
    /\ lab.pc[c] = "send"
    /\ lab' = [lab EXCEPT !.pc[c] = "idle"]
    /\ UNCHANGED transactionIdentifier
    /\ TwoUnchanged

\* SendToSlave line 1169, hndl->transactionId = transactionIdentifier++:
\* the counter is read and stored on the handle ...
TwoLoad(c) ==
    /\ lab.kind = "two"
    /\ lab.pc[c] = "sent"
    /\ lab' = [lab EXCEPT !.pc[c] = "loaded", !.tmp[c] = transactionIdentifier,
                          !.tid[c] = transactionIdentifier]
    /\ UNCHANGED transactionIdentifier
    /\ TwoUnchanged

\* ... and the incremented value written back (a uint16_t)
TwoStore(c) ==
    /\ lab.kind = "two"
    /\ lab.pc[c] = "loaded"
    /\ transactionIdentifier' = (lab.tmp[c] + 1) % Word
    /\ lab' = [lab EXCEPT !.pc[c] = "waiting"]
    /\ TwoUnchanged

\* the request is over (response or timeout), the handle is Idle again
TwoFinish(c) ==
    /\ lab.kind = "two"
    /\ lab.pc[c] = "waiting"
    /\ lab' = [lab EXCEPT !.pc[c] = "idle"]
    /\ UNCHANGED transactionIdentifier
    /\ TwoUnchanged

NextTwo ==
    \/ \E c \in Callers : TwoBuild(c)
    \/ \E c \in Callers : TwoSendOk(c)
    \/ \E c \in Callers : TwoSendFail(c)
    \/ \E c \in Callers : TwoLoad(c)
    \/ \E c \in Callers : TwoStore(c)
    \/ \E c \in Callers : TwoFinish(c)

SpecTwo == InitTwo /\ [][NextTwo]_vars

\* ------------------------------------------------------------------------
\* The M4 serial receiver: HandleUartIsu0RxIrqDeferred collects the bytes of
\* the UART in UartIsu0RxBuffer and forwards complete frames to the A7.
\* lab.frames are the valid frames the slave sends, lab.pos the bytes of
\* them dequeued so far, lab.data / lab.length the message data and length
\* of UartIsu0RxBuffer, lab.sent the PDUs handed to SendA7Message,
\* lab.crcFailures the frames dropped with "CRC Failure".
\* ------------------------------------------------------------------------
MAX_MESSAGE_LENGTH == 1024
PREFIX_LENGTH == 20
MaxUartFrames == 2
UartKinds == {"coils", "exception", "write"}

\* GetMessageMaxLength
GetMessageMaxLength == MAX_MESSAGE_LENGTH - PREFIX_LENGTH - MESSAGE_HEADER_LENGTH

\* the PDU (slave id first) of a response of the slave
UartPdu(k) ==
    IF k = "coils" THEN <<SlaveId, READ_COILS, 1, 165>>
    ELSE IF k = "exception"
    THEN <<SlaveId, READ_COILS + MODBUS_EXCEPTION_BIT, ILLEGAL_DATA_ADDRESS>>
    ELSE <<SlaveId, WRITE_SINGLE_COIL, 0, 4, 255, 0>>

\* the frame on the serial line: the PDU followed by its CRC
UartFrame(k) ==
    AddCRC(UartPdu(k), Len(UartPdu(k)), Len(UartPdu(k)) + CRC_FOOTER_LENGTH)

RECURSIVE UartBytes(_)
UartBytes(ks) ==
    IF ks = <<>> THEN <<>> ELSE UartFrame(Head(ks)) \o UartBytes(Tail(ks))

\* main.c line 29 and InitMessage: the buffer starts zeroed and empty
InitUart ==
    /\ Quiescent({}, {0}, {})
    /\ hndl = NewHandle("rtu")
    /\ transactionIdentifier = 0
    /\ \E n \in 1..MaxUartFrames :
       \E ks \in [1..n -> UartKinds] :
          lab = [kind |-> "uart", frames |-> ks, pos |-> 0, data |-> <<>>,
                 length |-> 0, sent |-> <<>>, crcFailures |-> 0]

\* the bytes of the frames that the UART has not handed over yet
UartRest ==
    LET all == UartBytes(lab.frames)
    IN  SubSeq(all, lab.pos + 1, Len(all))

\* one pass of the loop of HandleUartIsu0RxIrqDeferred in which
\* Uart_DequeueData returns availBytes > 0 bytes
UartDequeue ==
    /\ lab.kind = "uart"
    /\ UartRest # <<>>
    /\ \E availBytes \in 1..Min(Len(UartRest), GetMessageMaxLength - lab.length) :
          LET currentLength == lab.length + availBytes
              base == MemCpy(lab.data, lab.length,
                             SubSeq(UartRest, 1, availBytes), availBytes)
              expectedLength == GetFcodeLengthM4(Rd(base, 1), Rd(base, 2))
          IN  lab' =
                IF currentLength < PDU_HEADER_LENGTH
                   \/ currentLength < expectedLength
                THEN [lab EXCEPT !.pos = @ + availBytes, !.data = base,
                                 !.length = currentLength]
                ELSE IF ValidateCRC(base, expectedLength + CRC_FOOTER_LENGTH)
                THEN [lab EXCEPT !.pos = @ + availBytes, !.data = base,
                                 !.length = 0,
                                 !.sent = Append(@, Bytes(base, 0, expectedLength))]
                ELSE [lab EXCEPT !.pos = @ + availBytes, !.data = base,
                                 !.length = 0, !.crcFailures = @ + 1]
    /\ UNCHANGED <<hndl, transactionIdentifier, callerVars, quiet, seen, wire,
                   outstanding, hungup, epollVars>>

SpecUart == InitUart /\ [][UartDequeue]_vars

\* ------------------------------------------------------------------------
\* The slave simulator: processIncomingMessage on a read-file (0x14) or
\* write-file (0x15) request of one or more sub-requests, and what main
\* sends back.  lab.subs are the sub-requests of the request, lab.result
\* the value processIncomingMessage returned, lab.reply the first three
\* bytes of the frame sent (slave id, function code, byte count or
\* exception code).
\* ------------------------------------------------------------------------
SIM_HEADER_LENGTH == 3
SUBREQUEST_LENGTH == 7
REFERENCE_TYPE == 6
NO_ERROR == 0
ILLEGAL_FUNCTION == 1
ILLEGAL_DATA_VALUE == 3
FILE_RECORDS == 10000
MaxSub == 2
SimFiles == {0, 1, 7}
SimRecords == {0, 9999}
SimCodes == {READ_FILE, WRITE_FILE, READ_COILS}

\* the bytes of one sub-request: reference type, file number, record number,
\* record length (one record), and for a write the record's two data bytes
SimSub(op, s) ==
    <<REFERENCE_TYPE, s.fileNo \div 256, s.fileNo % 256,
      s.recordNo \div 256, s.recordNo % 256, 0, 1>>
    \o (IF op = WRITE_FILE THEN <<18, 52>> ELSE <<>>)

RECURSIVE SimBody(_, _)
SimBody(op, subs) ==
    IF subs = <<>> THEN <<>>
    ELSE SimSub(op, Head(subs)) \o SimBody(op, Tail(subs))

\* the request as the master sends it: slave id, function code, byte count
SimMessage(op, subs) ==
    <<SlaveId, op, Len(SimBody(op, subs)) % 256>> \o SimBody(op, subs)

\* fileRead lines 177-190: the result for a file number
fileRead(fileNo) ==
    IF 0 < fileNo /\ fileNo <= 6 THEN NO_ERROR ELSE ILLEGAL_DATA_ADDRESS

\* fileWrite lines 192-206
fileWrite(fileNo) ==
    IF 0 < fileNo /\ fileNo <= 6 THEN NO_ERROR ELSE ILLEGAL_DATA_ADDRESS

\* requestRead lines 68-104: the loop from sub-request i at offset inOff;
\* lastRet (ret) is the result of the last fileRead, whatever the ones before it were
RECURSIVE RequestReadLoop(_, _, _, _, _)
RequestReadLoop(messageIn, i, inOff, lastRet, totalLength) ==
    IF ~(i < Rd(messageIn, 2) \div SUBREQUEST_LENGTH)
    THEN [ret |-> lastRet, count |-> totalLength % 256]
    ELSE IF Rd(messageIn, inOff) # REFERENCE_TYPE
    THEN [ret |-> ILLEGAL_DATA_VALUE, count |-> 0]
    ELSE LET recordsToRead == Rd(messageIn, inOff + 6)
             fileNo == Rd(messageIn, inOff + 2) + 256 * Rd(messageIn, inOff + 1)
             recordNo == Rd(messageIn, inOff + 4) + 256 * Rd(messageIn, inOff + 3)
         IN  IF recordNo + recordsToRead < FILE_RECORDS
             THEN RequestReadLoop(messageIn, i + 1, inOff + SUBREQUEST_LENGTH,
                                  fileRead(fileNo),
                                  totalLength + recordsToRead * 2 + 2)
             ELSE [ret |-> ILLEGAL_DATA_ADDRESS, count |-> 0]

\* requestRead lines 56-113 (a byte count of 7 or more gives the loop at
\* least one pass, and every pass sets ret or returns)
requestRead(messageIn) ==
    IF 7 <= Rd(messageIn, 2) /\ Rd(messageIn, 2) <= 245
    THEN RequestReadLoop(messageIn, 0, SIM_HEADER_LENGTH, NO_ERROR, 0)
    ELSE [ret |-> ILLEGAL_DATA_VALUE, count |-> 0]

\* requestWrite lines 115-174: the loop with dataRead bytes consumed
RECURSIVE RequestWriteLoop(_, _)
RequestWriteLoop(messageIn, dataRead) ==
    LET inOff == SIM_HEADER_LENGTH + dataRead
    IN  IF ~(dataRead < Rd(messageIn, 2))
        THEN [ret |-> NO_ERROR, count |-> dataRead % 256]
        ELSE IF Rd(messageIn, inOff) # REFERENCE_TYPE
        THEN [ret |-> ILLEGAL_DATA_VALUE, count |-> 0]
        ELSE LET recordsToWrite == Rd(messageIn, inOff + 6)
                 fileNo == Rd(messageIn, inOff + 2) + 256 * Rd(messageIn, inOff + 1)
                 recordNo == Rd(messageIn, inOff + 4) + 256 * Rd(messageIn, inOff + 3)
             IN  IF recordNo + recordsToWrite < FILE_RECORDS
                 THEN IF fileWrite(fileNo) # NO_ERROR
                      THEN [ret |-> fileWrite(fileNo), count |-> 0]
                      ELSE RequestWriteLoop(messageIn,
                              dataRead + recordsToWrite * 2 + SUBREQUEST_LENGTH)
                 ELSE [ret |-> ILLEGAL_DATA_ADDRESS, count |-> 0]

requestWrite(messageIn) == RequestWriteLoop(messageIn, 0)

\* processIncomingMessage lines 36-54
processIncomingMessage(messageIn) ==
    IF Rd(messageIn, 1) = READ_FILE THEN requestRead(messageIn)
    ELSE IF Rd(messageIn, 1) = WRITE_FILE THEN requestWrite(messageIn)
    ELSE [ret |-> ILLEGAL_FUNCTION, count |-> 0]

InitSim ==
    /\ Quiescent({}, {0}, {})
    /\ hndl = NewHandle("rtuOverTcp")
    /\ transactionIdentifier = 0
    /\ \E op \in SimCodes, n \in 1..MaxSub :
       \E subs \in [1..n -> [fileNo : SimFiles, recordNo : SimRecords]] :
          lab = [kind |-> "sim", op |-> op, subs |-> subs, called |-> FALSE,
                 result |-> 0, reply |-> <<>>]

\* main lines 93-121: a request is received and answered
SimReceive ==
    /\ lab.kind = "sim"
    /\ ~lab.called
    /\ LET messageIn == SimMessage(lab.op, lab.subs)
           r == processIncomingMessage(messageIn)
       IN  lab' = [lab EXCEPT
                     !.called = TRUE,
                     !.result = r.ret,
                     !.reply = IF r.ret = 0
                               THEN <<Rd(messageIn, 0), Rd(messageIn, 1), r.count>>
                               ELSE <<Rd(messageIn, 0),
                                      Rd(messageIn, 1) + MODBUS_EXCEPTION_BIT,
                                      r.ret>>]
    /\ UNCHANGED <<hndl, transactionIdentifier, callerVars, quiet, seen, wire,
                   outstanding, hungup, epollVars>>

SpecSim == InitSim /\ [][SimReceive]_vars

\* ------------------------------------------------------------------------
\* Properties
\* ------------------------------------------------------------------------
\* C1: at most one request is outstanding on a handle: when two threads call
\* a request primitive on the same handle, at most one of them has sent a
\* frame and waits for the response.
C1_OneOutstanding ==
    Cardinality({c \in Callers : pc[c] \in {"sent", "wait"}}) <= 1

\* C2: a primitive called on a handle that is not Idle gives up without
\* touching the handle or the connection, and then returns false with
\* DEVICE_DISCONNECTED if the handle is Disconnected and HANDLE_IN_USE
\* otherwise; nothing has been sent for the call.
C2_RejectStep ==
    \A c \in Callers :
       /\ (pc[c] \in {"idle", "done"} /\ pc'[c] \notin {"idle", "done"}
           /\ hndl.state # "Idle")
          => /\ pc'[c] = "notready"
             /\ hndl' = hndl /\ wire' = wire /\ outstanding' = outstanding
             /\ transactionIdentifier' = transactionIdentifier
       /\ (pc[c] = "notready" /\ pc'[c] # "notready")
          => /\ pc'[c] = "done"
             /\ ret'[c] = FALSE
             /\ result'[c] = IF hndl.state = "Disconnected"
                             THEN DEVICE_DISCONNECTED ELSE HANDLE_IN_USE
             /\ ~sentOk'[c]
             /\ hndl' = hndl /\ wire' = wire /\ outstanding' = outstanding
             /\ transactionIdentifier' = transactionIdentifier

\* C2: every step of the program is a step as C2_RejectStep describes
C2_RejectWhenNotIdle == [][C2_RejectStep]_vars

\* C2 happens: a thread was turned away with HANDLE_IN_USE while the other one waits
C2_Witness ==
    \E c \in Callers, d \in Callers :
       /\ c # d
       /\ pc[c] = "done" /\ path[c] = "notready" /\ result[c] = HANDLE_IN_USE
       /\ ~ret[c] /\ ~sentOk[c]
       /\ pc[d] = "wait" /\ hndl.state = "WaitingForResponse"

\* C3: when a primitive has returned (success, exception, mismatch or
\* timeout) and the peer has not hung up, the handle is Idle.
C3_IdleAfterReturn ==
    \A c \in Callers :
       (pc[c] = "done" /\ ~hungup
        /\ path[c] \in {"success", "exception", "mismatch", "timeout"})
       => hndl.state = "Idle"

\* C4: a request that was sent with a timeout T > 0 and got no response
\* (the delivery flow did nothing since the call and no other thread used
\* the handle) returns false with MODBUS_TIMEOUT and leaves the handle Idle,
\* and the next call on the handle is accepted.
C4_Unanswered(c) ==
    /\ pc[c] = "done" /\ sentOk[c] /\ timeout[c] > 0 /\ quiet /\ solo[c]

C4_Step ==
    \A c \in Callers :
       /\ C4_Unanswered(c)'
          => /\ ret'[c] = FALSE
             /\ result'[c] = MODBUS_TIMEOUT
             /\ hndl'.state = "Idle"
       /\ (C4_Unanswered(c) /\ pc'[c] # "done") => pc'[c] = "write"

\* C4: every step of the program is a step as C4_Step describes
C4_TimeoutThenIdle == [][C4_Step]_vars

\* C4 happens: an unanswered request has timed out
C4_Witness ==
    \E c \in Callers :
       /\ C4_Unanswered(c) /\ path[c] = "timeout"
       /\ result[c] = MODBUS_TIMEOUT /\ hndl.state = "Idle"

\* C5: a primitive that returns true returns the response to its own
\* request: the coil byte (ReadCoils) or the echoed address
\* (WriteSingleCoil) is the one the slave produced for this request.
C5_Tag(c) ==
    IF fc[c] = READ_COILS THEN Rd(data[c], 0)
    ELSE Rd(data[c], 0) * 256 + Rd(data[c], 1)

\* C5: the payload of a call that returned true carries its own request number
C5_NoStaleResult ==
    \A c \in Callers :
       (pc[c] = "done" /\ ret[c] /\ path[c] = "success") => C5_Tag(c) = req[c]

\* C6: MessageHandler gives the same result however the bytes of a frame
\* are split over its calls: waiting until the last byte, then one success
\* with the PDU that the frame delivered in one piece produces.
C6_Whole == MessageHandler(AwaitingHandle(hndl.type), lab.frame, Len(lab.frame))

\* C6: the returns and the PDU of the split delivery are those of C6_Whole
C6_SplitIndependent ==
    lab.kind = "feed" =>
       /\ C6_Whole.ret = "success"
       /\ \A i \in 1..Len(lab.rets) :
             lab.rets[i] = IF i = Len(lab.rets) /\ lab.rest = <<>>
                           THEN "success" ELSE "waiting"
       /\ lab.rest = <<>> =>
             /\ hndl.pduLength = C6_Whole.h.pduLength
             /\ Bytes(hndl.pdu, 0, hndl.pduLength)
                  = Bytes(C6_Whole.h.pdu, 0, C6_Whole.h.pduLength)

\* C7: on TCP a received transaction id equal to the expected one is
\* accepted, one strictly between the last accepted id and the expected one
\* (modulo 2^16) is discarded as stale, and any other one, the last accepted
\* id included, aborts the transaction.  Stated for an expected id that
\* differs from the last accepted one.
C7_Class(rx, tx, last) ==
    IF rx = tx THEN "Accept"
    ELSE IF /\ (rx - last + Word) % Word > 0
            /\ (rx - last + Word) % Word < (tx - last + Word) % Word
    THEN "StaleDiscard"
    ELSE "FutureAbort"

\* C7: the class the code computes is the class C7_Class gives
C7_TransactionCheck ==
    (lab.kind = "ids" /\ lab.class # "none" /\ lab.tx # lab.last)
    => lab.class = C7_Class(lab.rx, lab.tx, lab.last)

\* C8: a handle that is Disconnected stays Disconnected.
C8_DisconnectedSticky ==
    [][hndl.state = "Disconnected" => hndl'.state = "Disconnected"]_vars

\* C9: when the response to the outstanding request arrives on an RTU over
\* stream handle in time but with a wrong CRC, the primitive returns false
\* with INVALID_RESPONSE and the handle is Idle.
C9_CrcErrorReported ==
    \A c \in Callers :
       (pc[c] = "done" /\ sentOk[c] /\ seen = "crc" /\ ~hungup
        /\ hndl.type = "rtuOverTcp")
       => /\ ret[c] = FALSE
          /\ result[c] = INVALID_RESPONSE
          /\ hndl.state = "Idle"

\* C10: when a validated response PDU was delivered in time for a request
\* and its function code has no exception bit and is not the one requested,
\* the primitive returns false with INVALID_RESPONSE, copies no payload and
\* leaves the handle Idle.
C10_WrongCode(c) ==
    /\ pc[c] = "done" /\ retval[c] /\ seen = "complete" /\ ~hungup
    /\ hndl.pduLength >= PDU_HEADER_LENGTH
    /\ Rd(hndl.pdu, 1) < MODBUS_EXCEPTION_BIT
    /\ Rd(hndl.pdu, 1) # fc[c]

\* C10: a call in the case C10_WrongCode returned INVALID_RESPONSE, no payload
C10_MismatchRejected ==
    \A c \in Callers :
       C10_WrongCode(c)
       => /\ ret[c] = FALSE
          /\ result[c] = INVALID_RESPONSE
          /\ data[c] = <<>>
          /\ hndl.state = "Idle"

\* C10 happens: a response with the other function code was delivered and refused
C10_Witness ==
    \E c \in Callers :
       /\ C10_WrongCode(c) /\ path[c] = "mismatch"
       /\ result[c] = INVALID_RESPONSE /\ data[c] = <<>>

\* C11: when a validated response PDU was delivered in time for a request
\* and its function code byte has the high bit set, the primitive returns
\* false with the exception byte (third PDU byte, the one the slave sent)
\* in the first byte of the output buffer, and the handle is Idle.
C11_Exception(c) ==
    /\ pc[c] = "done" /\ retval[c] /\ seen = "complete" /\ ~hungup
    /\ hndl.pduLength >= PDU_HEADER_LENGTH
    /\ Rd(hndl.pdu, 1) >= MODBUS_EXCEPTION_BIT

\* C11: a call in the case C11_Exception returned the exception byte
C11_ExceptionSurfaced ==
    \A c \in Callers :
       C11_Exception(c)
       => /\ ret[c] = FALSE
          /\ result[c] = Rd(hndl.pdu, 2)
          /\ result[c] = ILLEGAL_DATA_ADDRESS
          /\ data[c] = <<>>
          /\ hndl.state = "Idle"

\* C11 happens: an exception response was delivered and surfaced
C11_Witness ==
    \E c \in Callers :
       /\ C11_Exception(c) /\ path[c] = "exception"
       /\ Rd(hndl.pdu, 1) = fc[c] + MODBUS_EXCEPTION_BIT
       /\ result[c] = ILLEGAL_DATA_ADDRESS

\* C12: on a TCP handle, when the correct response to a ReadCoils request
\* (same transaction id, function code 1, byte count n) was delivered before
\* the wait gave up, ReadCoils returned true, the caller's buffer holds
\* exactly the n data bytes of the response, and the handle is Idle.
C12_Answered(c) ==
    /\ pc[c] = "done" /\ hndl.type = "tcp" /\ fc[c] = READ_COILS
    /\ retval[c] /\ seen = "complete" /\ ~hungup
    /\ hndl.pduLength >= PDU_HEADER_LENGTH
    /\ Rd(hndl.pdu, 1) = READ_COILS

C13_Step ==
    \A c \in Callers :
       /\ (pc[c] = "send" /\ pc'[c] # "send" /\ ~sentOk'[c])
          => /\ pc'[c] = "done"
             /\ ret'[c] = FALSE
             /\ result'[c] = MESSAGE_SEND_FAIL
             /\ hndl'.state = "Idle"
             /\ hndl'.transactionId = hndl.transactionId
             /\ transactionIdentifier' = transactionIdentifier
             /\ outstanding' = outstanding /\ wire' = wire
       /\ (pc[c] \in {"idle", "done", "write"} /\ pc'[c] \in {"write", "send"}
           /\ pc'[c] # pc[c])
          => /\ hndl'.transactionId = hndl.transactionId
             /\ transactionIdentifier' = transactionIdentifier

\* C13: every step of the program is a step as C13_Step describes
C13_SendFailure == [][C13_Step]_vars

\* C13 happens: a call has returned on a failed send
C13_Witness ==
    \E c \in Callers :
       /\ pc[c] = "done" /\ path[c] = "sendfail" /\ ~sentOk[c]
       /\ result[c] = MESSAGE_SEND_FAIL /\ ~ret[c]
       /\ hndl.state = "Idle" /\ outstanding = {}

\* C14: a ReadFile or WriteFile request whose sub-request has
\* record number + record count >= 10000 is rejected locally: nothing is
\* handed to send, the handle stays Idle, and the call returns with
\* ILLEGAL_DATA_ADDRESS.
C14_OutOfRange == lab.recordNumber + lab.recordLength >= 10000

C14_RejectedLocally ==
    (lab.kind = "file" /\ C14_OutOfRange)
    => \A c \in Callers :
          /\ adu[c] = <<>> /\ ~sentOk[c]
          /\ hndl.state = "Idle"
          /\ pc[c] = "done" => result[c] = ILLEGAL_DATA_ADDRESS

\* C15: whatever the transport, ModbusClose takes the descriptor out of the
\* epoll set and closes it, so that after ModbusClose has returned
\* EpollThread is never handed an event whose data pointer is the released
\* handle.
C15_CloseDeregisters == lab.kind = "close" => ~lab.stale

\* C16: with timeout 0 the wait of a primitive ends only when the handle
\* state is DataReceived, TransactionFailed or Disconnected, however often
\* it has polled.
C16_Step ==
    \A c \in Callers :
       (timeout[c] = 0 /\ pc[c] = "wait" /\ pc'[c] # "wait")
       => /\ hndl.state \in {"DataReceived", "TransactionFailed", "Disconnected"}
          /\ pc'[c] = "wfdcheck"

\* C16: every step of the program is a step as C16_Step describes
C16_WaitForever == [][C16_Step]_vars

\* C16 happens: a call with timeout 0 has waited and returned on a response
C16_Witness ==
    \E c \in Callers :
       /\ timeout[c] = 0 /\ pc[c] = "done" /\ sentOk[c] /\ retval[c]
       /\ path[c] = "success"

\* C17: a request with timeout T > 0 that got no response returns its
\* timeout error no sooner than T milliseconds after the wait began: the
\* number of polls of WaitForData times the sleep of one poll is at least
\* T ms.
C17_TimeoutNotEarly ==
    \A c \in Callers :
       (pc[c] = "done" /\ path[c] = "timeout" /\ sentOk[c] /\ quiet
        /\ timeout[c] > 0)
       => counter[c] * PollSleepNs >= timeout[c] * NsPerMs


\* the Modbus CRC16 computed bit by bit: initial value 0xFFFF, each byte
\* xor-ed into the low byte, then eight shifts right with the reflected
\* polynomial 0xA001 xor-ed in whenever a one is shifted out
RECURSIVE C18_Shift(_, _)
C18_Shift(crc, k) ==
    IF k = 0 THEN crc
    ELSE C18_Shift(IF crc % 2 = 1 THEN Xor(crc \div 2, 40961) ELSE crc \div 2,
                   k - 1)

RECURSIVE C18_Crc16(_, _, _)
C18_Crc16(b, i, crc) ==
    IF i > Len(b) THEN crc
    ELSE C18_Crc16(b, i + 1, C18_Shift(Xor(crc, b[i]), 8))

\* C18: CRC16 round trip. For every byte sequence b that fits the buffer,
\* ValidateCRC of the result of AddCRC(b) is true, and after a change of any
\* single byte of that result ValidateCRC is false; the two bytes AddCRC
\* stores are the Modbus CRC16 of b (initial value 0xFFFF, polynomial
\* 0xA001), low byte first, and the bytes of b are left as they were.
C18_CrcRoundTrip ==
    (lab.kind = "crc" /\ lab.ok) =>
       /\ (lab.stage = "validated" /\ ~lab.changed) => lab.valid
       /\ (lab.stage = "validated" /\ lab.changed) => ~lab.valid
       /\ ~lab.changed =>
            LET crc == C18_Crc16(lab.b, 1, 65535)
            IN  /\ Bytes(lab.message, 0, lab.inputLength) = lab.b
                /\ Rd(lab.message, lab.inputLength) = crc % 256
                /\ Rd(lab.message, lab.inputLength + 1) = crc \div 256

\* a message of three bytes whose CRC has two different bytes was given its
\* CRC, had one byte changed and was validated
C18_Witness ==
    /\ lab.kind = "crc"
    /\ lab.stage = "validated"
    /\ lab.changed
    /\ lab.inputLength = MaxCrcLen
    /\ LET crc == GetCRC(lab.b, lab.inputLength)
       IN  crc % 256 # crc \div 256


\* C19: for every function code with its high bit set (128..255) and every
\* length byte, GetFcodeLength returns the fixed exception length 3.
C19_ExceptionLength ==
    (lab.kind = "len" /\ lab.called /\ lab.fCode >= 128)
       => lab.length = ERROR_CODE_LENGTH


\* the PDU of the file request of the call in progress
C20_Pdu ==
    FileMessage(lab.op, SubRequest(lab.op, lab.fileNumber, lab.recordNumber,
                                   lab.recordLength))

\* C20: for a TCP handle and a PDU of length L, the frame handed to send()
\* is exactly 6 header bytes followed by the unmodified PDU (L + 6 bytes,
\* nothing appended): bytes 0-1 are the current transaction identifier
\* big-endian, bytes 2-3 are zero, bytes 4-5 are L big-endian.
C20_TcpFrame ==
    \A c \in Callers :
       (lab.kind = "file" /\ hndl.type = "tcp" /\ pc[c] = "send") =>
          LET L == Len(C20_Pdu)
          IN  /\ Len(adu[c]) = L + 6
              /\ adu[c][1] = transactionIdentifier \div 256
              /\ adu[c][2] = transactionIdentifier % 256
              /\ adu[c][3] = 0
              /\ adu[c][4] = 0
              /\ adu[c][5] = L \div 256
              /\ adu[c][6] = L % 256
              /\ SubSeq(adu[c], 7, L + 6) = C20_Pdu

\* a WriteFile request of 30 bytes is about to be sent on a TCP handle whose
\* transaction identifier is 0x1234
C20_Witness ==
    /\ lab.kind = "file"
    /\ hndl.type = "tcp"
    /\ pc[1] = "send"
    /\ transactionIdentifier = 4660
    /\ lab.op = WRITE_FILE
    /\ Len(adu[1]) = 36

\* C21: for an RTU-over-stream handle and every PDU length a request
\* primitive can produce, the frame handed to send() is the unmodified PDU
\* followed by the 2-byte little-endian CRC16 of its bytes, so that every
\* frame sent passes ValidateCRC; no frame goes out with a trailer that was
\* not computed.
C21_RtuFrame ==
    \A c \in Callers :
       (lab.kind = "file" /\ hndl.type = "rtuOverTcp" /\ pc[c] = "send") =>
          LET L == Len(C20_Pdu)
              crc == GetCRC(C20_Pdu, L)
          IN  /\ adu[c] = C20_Pdu \o <<crc % 256, crc \div 256>>
              /\ ValidateCRC(adu[c], L + 2)

\* C22: for every numToWrite in 1..1968, WriteMultipleCoils encodes the
\* request per the Modbus layout of function 15: the byte-count field is
\* ceil(numToWrite / 8), exactly that many bytes of bitArray follow it, and
\* the PDU sent has length 7 + ceil(numToWrite / 8).
C22_CoilsLayout ==
    (lab.kind = "coils" /\ lab.called) =>
       LET n == (lab.numToWrite + 7) \div 8
       IN  /\ Rd(lab.modBusMessage, 6) = n
           /\ lab.packetLength = 7 + n
           /\ Bytes(lab.modBusMessage, 7, lab.packetLength - 7) = lab.bitArray

\* C23: the transaction identifier counter goes up by exactly 1 modulo
\* 65536 for each request sent successfully over a TCP handle, and requests
\* sent over RTU-over-stream or RTU-over-intercore handles leave it as it is.
C23_Step ==
    \A c \in Callers :
       (pc[c] = "sent" /\ pc'[c] = "wait") =>
          IF hndl.type = "tcp"
          THEN transactionIdentifier' = (transactionIdentifier + 1) % Word
          ELSE transactionIdentifier' = transactionIdentifier

C23_CounterTcpOnly == [][C23_Step]_vars

\* C24: whenever the receive of the delivery flow returns zero bytes (the
\* peer has closed and nothing is left to read), the handle's state becomes
\* Disconnected as a result of handling that read: the pass of EpollThread
\* that made the read goes on to its hang-up branch, which stores
\* Disconnected before the thread waits again.
C24_Step ==
    /\ (epc = "wait" /\ epc' # "wait" /\ wire = <<>>)
          => (evHup' /\ epc' \in {"setstate", "hup"})
    /\ (epc = "setstate" /\ epc' # "setstate" /\ evHup) => epc' = "hup"
    /\ (epc = "hup" /\ epc' # "hup")
          => (epc' = "wait" /\ hndl'.state = "Disconnected")

C24_ZeroReadDisconnects == [][C24_Step]_vars

\* the only request issued so far has not been answered, so that nothing was
\* ever there to read; the peer closed, the read returned zero bytes, and the
\* pass that made it has stored Disconnected
C24_Witness ==
    /\ nreq = 1
    /\ outstanding # {}
    /\ hungup
    /\ evHup
    /\ epc = "wait"
    /\ mhsState = "waiting"
    /\ hndl.state = "Disconnected"
    /\ \E c \in Callers : pc[c] = "wait"

\* The step of the delivery flow on a stream, seen from outside: the chunk
\* the step receives, the reassembly buffer with that chunk appended, the
\* length of the frame at its front by the length table, whether that frame
\* is all there, and the transaction id in its header
C25_Chunk == SubSeq(StreamRest, 1, lab'.pos - lab.pos)

C25_Buffer == Bytes(hndl.bufferedMessage, 0, hndl.bufferedMessageLength) \o C25_Chunk

C25_TcpFrameLength ==
    TCP_HEADER_LENGTH + GetFcodeLength(Rd(C25_Buffer, 7), Rd(C25_Buffer, 8))

C25_TcpFrameComplete ==
    /\ lab.kind = "stream"
    /\ lab'.pos > lab.pos
    /\ hndl.type = "tcp"
    /\ hndl.state = "WaitingForResponse"
    /\ Len(C25_Buffer) < MAX_PDU_LENGTH
    /\ Len(C25_Buffer) >= TCP_HEADER_LENGTH + PDU_HEADER_LENGTH
    /\ Len(C25_Buffer) >= C25_TcpFrameLength

C25_RxId == Rd(C25_Buffer, 0) * 256 + Rd(C25_Buffer, 1)

C25_Class ==
    TransactionCheck(C25_RxId, hndl.transactionId, hndl.lastTransactionId)

\* C25: when a complete TCP frame is classified StaleDiscard, MessageHandler
\* returns 'waiting' (the state stays WaitingForResponse), removes exactly
\* that frame's bytes from the reassembly buffer and keeps the bytes that
\* follow, in order, at the front, and leaves the PDU buffer, pduLength and
\* lastTransactionId as they were; lastTransactionId changes only when a
\* frame is accepted, and then equals the id received.
C25_Step ==
    /\ (C25_TcpFrameComplete /\ C25_Class = "StaleDiscard") =>
          LET left == Len(C25_Buffer) - C25_TcpFrameLength
          IN  /\ lab'.ret = "waiting"
              /\ hndl'.state = "WaitingForResponse"
              /\ hndl'.bufferedMessageLength = left
              /\ Bytes(hndl'.bufferedMessage, 0, left)
                   = SubSeq(C25_Buffer, C25_TcpFrameLength + 1, Len(C25_Buffer))
              /\ hndl'.pdu = hndl.pdu
              /\ hndl'.pduLength = hndl.pduLength
              /\ hndl'.lastTransactionId = hndl.lastTransactionId
    /\ (lab.kind = "stream" /\ hndl.type = "tcp"
        /\ hndl'.lastTransactionId # hndl.lastTransactionId) =>
          /\ C25_TcpFrameComplete
          /\ lab'.ret = "success"
          /\ hndl'.lastTransactionId = C25_RxId

C25_StaleDiscard == [][C25_Step]_vars

\* a stale frame has just been dropped from a buffer that held more than it
C25_Witness ==
    /\ lab.kind = "stream"
    /\ hndl.type = "tcp"
    /\ lab.note = "stale"
    /\ lab.ret = "waiting"
    /\ hndl.state = "WaitingForResponse"
    /\ hndl.bufferedMessageLength > 0
    /\ hndl.pdu = OldPdu

\* The read of the delivery flow in the main specification, seen from
\* outside: it is the step that takes bytes off the connection
C26_Read == epc = "wait" /\ Len(wire') < Len(wire)

C26_Buffer ==
    Bytes(hndl.bufferedMessage, 0, hndl.bufferedMessageLength)
    \o SubSeq(wire, 1, Len(wire) - Len(wire'))

C26_FutureFrame ==
    /\ C26_Read
    /\ hndl.type = "tcp"
    /\ hndl.state = "WaitingForResponse"
    /\ Len(C26_Buffer) < MAX_PDU_LENGTH
    /\ Len(C26_Buffer) >= TCP_HEADER_LENGTH + PDU_HEADER_LENGTH
    /\ Len(C26_Buffer) >= TCP_HEADER_LENGTH
                          + GetFcodeLength(Rd(C26_Buffer, 7), Rd(C26_Buffer, 8))
    /\ TransactionCheck(Rd(C26_Buffer, 0) * 256 + Rd(C26_Buffer, 1),
                        hndl.transactionId, hndl.lastTransactionId)
         = "FutureAbort"

\* C26: when a complete TCP frame is classified FutureAbort, the whole
\* reassembly buffer is emptied (bufferedMessageLength = 0), the PDU buffer
\* is unchanged, the handle state becomes TransactionFailed, and the blocked
\* request primitive returns failure without waiting for its timeout to
\* elapse: the polling loop is left at the first turn that finds
\* TransactionFailed, and the call returns false.
C26_Step ==
    /\ C26_FutureFrame =>
          /\ hndl'.bufferedMessageLength = 0
          /\ hndl'.pdu = hndl.pdu
          /\ mhsState' = "failure"
          /\ epc' = "setstate"
    /\ (epc = "setstate" /\ epc' # "setstate" /\ mhsState = "failure")
          => hndl'.state = "TransactionFailed"
    /\ \A c \in Callers :
          /\ (pc[c] = "wait" /\ hndl.state = "TransactionFailed"
              /\ <<pc[c], counter[c]>>' # <<pc[c], counter[c]>>)
                => (pc'[c] = "wfdcheck" /\ counter'[c] = counter[c])
          /\ (pc[c] = "wfdcheck" /\ pc'[c] # "wfdcheck"
              /\ hndl.state = "TransactionFailed") => ~retval'[c]
          /\ (pc'[c] = "done" /\ seen' = "future" /\ sentOk'[c]) => ~ret'[c]

C26_FutureAbort == [][C26_Step]_vars

\* a frame from the future arrived in time, with more bytes behind it in the
\* same chunk, and the call has returned false before its time was up
C26_Witness ==
    \E c \in Callers :
       /\ pc[c] = "done"
       /\ seen = "future"
       /\ sentOk[c]
       /\ ~ret[c]
       /\ timeout[c] > 0
       /\ counter[c] <= timeout[c]
       /\ hndl.type = "tcp"
       /\ hndl.bufferedMessageLength = 0

\* the reassembly buffer starts with a complete frame that answers the
\* outstanding request: its transaction id on TCP, a good CRC on
\* RTU-over-stream
C27_HoldsResponse ==
    LET n == hndl.bufferedMessageLength
        b == Bytes(hndl.bufferedMessage, 0, n)
        hdr == TransportHeaderLength(hndl.type)
        ftr == TransportFooterLength(hndl.type)
        len == GetFcodeLength(Rd(b, hdr + 1), Rd(b, hdr + 2))
    IN  /\ hndl.type \in {"tcp", "rtuOverTcp"}
        /\ n >= MinLength(hndl.type)
        /\ len >= PDU_HEADER_LENGTH
        /\ n >= hdr + len + ftr
        /\ hndl.type = "tcp"
              => Rd(b, 0) * 256 + Rd(b, 1) = hndl.transactionId
        /\ hndl.type = "rtuOverTcp" => ValidateCRC(b, len + CRC_FOOTER_LENGTH)

\* C27: pipelined delivery completes in one pass. When a received chunk
\* holds a discarded frame (stale, or rejected for its CRC) followed by the
\* complete matching response, or more generally whenever the reassembly
\* buffer holds a complete valid matching frame while the state is
\* WaitingForResponse, the request completes without further bytes having
\* to arrive: no pass of the delivery flow ends with such a frame in the
\* buffer and the handle still waiting.
C27_OnePass ==
    (lab.kind = "stream" /\ hndl.state = "WaitingForResponse")
       => ~C27_HoldsResponse

\* C28: when appending a received chunk would exceed the maximum size of
\* the reassembly buffer, MessageHandler empties the buffer and reports a
\* failure for the request in flight: the handle state becomes
\* TransactionFailed (so that the blocked primitive returns failure instead
\* of waiting on).
C28_Step ==
    (/\ lab.kind = "stream"
     /\ lab'.pos > lab.pos
     /\ hndl.state = "WaitingForResponse"
     /\ hndl.bufferedMessageLength + (lab'.pos - lab.pos) >= MAX_PDU_LENGTH)
    => /\ hndl'.bufferedMessageLength = 0
       /\ lab'.ret = "failure"
       /\ hndl'.state = "TransactionFailed"

C28_OverflowFails == [][C28_Step]_vars

\* C29: in every reachable state, for every sequence of received chunks (of
\* any sizes, a failed receive included), the fill length of the reassembly
\* buffer, bufferedMessageLength, never exceeds the capacity of
\* bufferedMessage (MAX_PDU_LENGTH), the bytes it counts are all inside the
\* buffer, and the subtraction of a consumed frame's length from it never
\* goes below zero.
C29_BufferBounded ==
    /\ hndl.bufferedMessageLength >= 0
    /\ hndl.bufferedMessageLength <= MAX_PDU_LENGTH
    /\ Len(hndl.bufferedMessage) <= MAX_PDU_LENGTH

\* after a failed receive and further chunks a frame has been taken from the
\* buffer, which still holds bytes that came behind it
C29_Witness ==
    /\ lab.kind = "stream"
    /\ lab.failed
    /\ lab.note \in {"complete", "stale", "crc"}
    /\ hndl.bufferedMessageLength > 0

\* The delivery pass seen from outside (in the stream specification the
\* step that moves on in the stream, in the others the read after which
\* EpollThread sets the state), the bytes it has to work on (what was buffered and
\* the chunk received with it), whether it ends in success, where the PDU of the frame at
\* their front starts and how long it is by the length table, the length of
\* what follows the PDU, and whether that frame passes the check of its
\* transport
C30_Delivery ==
    IF lab.kind = "stream" THEN lab'.pos > lab.pos
    ELSE epc = "wait" /\ epc' = "setstate"

C30_Chunk ==
    IF lab.kind = "stream" THEN SubSeq(StreamRest, 1, lab'.pos - lab.pos)
    ELSE SubSeq(wire, 1, Len(wire) - Len(wire'))

C30_Success ==
    IF lab.kind = "stream"
    THEN lab'.ret = "success" /\ hndl'.state = "DataReceived"
    ELSE mhsState' = "success" /\ epc' = "setstate"

C30_Buffer == Bytes(hndl.bufferedMessage, 0, hndl.bufferedMessageLength) \o C30_Chunk

C30_PduStart ==
    IF hndl.type = "tcp" THEN TCP_HEADER_LENGTH
    ELSE IF hndl.type = "rtu" THEN MESSAGE_HEADER_LENGTH
    ELSE 0

C30_Trailer == IF hndl.type = "rtuOverTcp" THEN CRC_FOOTER_LENGTH ELSE 0

C30_PduLength ==
    GetFcodeLength(Rd(C30_Buffer, C30_PduStart + 1), Rd(C30_Buffer, C30_PduStart + 2))

C30_Validated ==
    IF hndl.type = "tcp"
    THEN Rd(C30_Buffer, 0) * 256 + Rd(C30_Buffer, 1) = hndl.transactionId
    ELSE IF hndl.type = "rtuOverTcp"
    THEN GetCRC(C30_Buffer, C30_PduLength)
           = Rd(C30_Buffer, C30_PduLength) + 256 * Rd(C30_Buffer, C30_PduLength + 1)
    ELSE TRUE

\* C30: the bytes of the PDU buffer change only in the MessageHandler step
\* that returns success for a frame that has been received completely and
\* has passed the check of its transport (the transaction identifier for
\* TCP, the CRC for RTU over a stream), and then they become the PDU of that
\* frame; a step that ends as pending, overflow, stale discard, future abort,
\* CRC failure or data while not waiting, and the sending of a request, leave
\* the PDU bytes as they were.
C30_Step ==
    /\ hndl'.pdu # hndl.pdu =>
          /\ C30_Delivery
          /\ hndl.state = "WaitingForResponse"
          /\ C30_Success
          /\ Len(C30_Buffer) >= C30_PduStart + PDU_HEADER_LENGTH + C30_Trailer
          /\ Len(C30_Buffer) >= C30_PduStart + C30_PduLength + C30_Trailer
          /\ C30_Validated
          /\ hndl'.pduLength = C30_PduLength
          /\ Bytes(hndl'.pdu, 0, C30_PduLength)
               = SubSeq(C30_Buffer, C30_PduStart + 1, C30_PduStart + C30_PduLength)
          /\ \A k \in C30_PduLength .. Len(hndl.pdu) - 1 :
                Rd(hndl'.pdu, k) = Rd(hndl.pdu, k)
    /\ (lab.kind = "stream"
        /\ lab'.note \in {"pending", "overflow", "stale", "future", "crc",
                          "notwaiting"})
          => hndl'.pdu = hndl.pdu
    /\ hndl'.state = "SendingRequest" \/ pc' # pc => hndl'.pdu = hndl.pdu

C30_PduOnlyOnSuccess == [][C30_Step]_vars

\* a response has been accepted into the PDU buffer after an earlier frame
\* of the stream was thrown away
C30_Witness ==
    /\ lab.kind = "stream"
    /\ lab.note = "complete"
    /\ hndl.state = "DataReceived"
    /\ hndl.pdu # OldPdu
    /\ hndl.pduLength > 0
    /\ lab.frames[1] \in {"stale", "badcrc"}

\* The bytes a delivery pass on an RTU-over-stream handle has to work on,
\* the length of the frame at their front (PDU by the length table plus the
\* CRC footer), and whether that frame is all there with a CRC that does not
\* match
C31_Chunk == SubSeq(StreamRest, 1, lab'.pos - lab.pos)

C31_Buffer == Bytes(hndl.bufferedMessage, 0, hndl.bufferedMessageLength) \o C31_Chunk

C31_PduLength == GetFcodeLength(Rd(C31_Buffer, 1), Rd(C31_Buffer, 2))

C31_FrameLength == C31_PduLength + CRC_FOOTER_LENGTH

C31_BadCrcFrame ==
    /\ lab.kind = "stream"
    /\ lab'.pos > lab.pos
    /\ hndl.type = "rtuOverTcp"
    /\ hndl.state = "WaitingForResponse"
    /\ Len(C31_Buffer) < MAX_PDU_LENGTH
    /\ Len(C31_Buffer) >= CRC_FOOTER_LENGTH + PDU_HEADER_LENGTH
    /\ Len(C31_Buffer) >= C31_FrameLength
    /\ GetCRC(C31_Buffer, C31_PduLength)
         # Rd(C31_Buffer, C31_PduLength) + 256 * Rd(C31_Buffer, C31_PduLength + 1)

\* C31: when a complete RTU-over-stream frame fails the CRC validation,
\* MessageHandler removes exactly that frame (its PDU and the two CRC bytes)
\* from the front of the reassembly buffer, keeps the bytes that follow in
\* order at the front, reduces the fill length by exactly the frame length
\* and leaves the PDU buffer as it was.
C31_Step ==
    C31_BadCrcFrame =>
       LET left == Len(C31_Buffer) - C31_FrameLength
       IN  /\ hndl'.bufferedMessageLength = left
           /\ Bytes(hndl'.bufferedMessage, 0, left)
                = SubSeq(C31_Buffer, C31_FrameLength + 1, Len(C31_Buffer))
           /\ hndl'.pdu = hndl.pdu
           /\ hndl'.pduLength = hndl.pduLength
           /\ lab'.ret = "waiting"

C31_CrcDiscard == [][C31_Step]_vars

\* a frame with a wrong CRC has just been dropped from a buffer that held
\* bytes of the next frame behind it
C31_Witness ==
    /\ lab.kind = "stream"
    /\ hndl.type = "rtuOverTcp"
    /\ lab.note = "crc"
    /\ hndl.bufferedMessageLength > 0
    /\ hndl.pdu = OldPdu

\* The bytes a delivery pass has to work on, and whether they reach the
\* function code and length bytes of the frame at their front while the
\* function code is one the length table does not know
C32_Chunk == SubSeq(StreamRest, 1, lab'.pos - lab.pos)

C32_Buffer == Bytes(hndl.bufferedMessage, 0, hndl.bufferedMessageLength) \o C32_Chunk

C32_FCodeOffset ==
    (IF hndl.type = "tcp" THEN TCP_HEADER_LENGTH
     ELSE IF hndl.type = "rtu" THEN MESSAGE_HEADER_LENGTH
     ELSE 0) + 1

C32_UnsupportedSeen ==
    /\ lab.kind = "stream"
    /\ lab'.pos > lab.pos
    /\ hndl.state = "WaitingForResponse"
    /\ Len(C32_Buffer) < MAX_PDU_LENGTH
    /\ Len(C32_Buffer) >= C32_FCodeOffset + 2
                          + (IF hndl.type = "rtuOverTcp" THEN CRC_FOOTER_LENGTH ELSE 0)
    /\ GetFcodeLength(Rd(C32_Buffer, C32_FCodeOffset),
                      Rd(C32_Buffer, C32_FCodeOffset + 1)) = 0

\* C32: when during reassembly the byte at the function-code offset is not
\* in the length table (GetFcodeLength returns 0), the whole reassembly
\* buffer is discarded (the fill length becomes 0) and no PDU is reported
\* complete for that data.
C32_Step ==
    C32_UnsupportedSeen =>
       /\ hndl'.bufferedMessageLength = 0
       /\ lab'.ret # "success"
       /\ hndl'.state # "DataReceived"

C32_UnsupportedDiscards == [][C32_Step]_vars

\* C33: the function-code length table is the same on both processors: for
\* every function code and every length byte, GetFcodeLength of the A7
\* master and GetFcodeLength of the M4 serial receiver return the same PDU
\* length.
C33_SameTable ==
    (lab.kind = "len" /\ lab.called) => lab.length = lab.lengthM4

\* C34: a request primitive returns true only if, after its request was
\* sent, a complete frame of at least 3 PDU bytes passed validation and the
\* function-code byte of that frame equals the function code of the request.
\* ModBusWrite sets pduLength to 0 and only the acceptance of a frame sets
\* it again, so pduLength tells whether a frame has been accepted since.
C34_Step ==
    \A c \in Callers :
       (pc[c] = "examine" /\ pc'[c] # "examine" /\ ret'[c]) =>
          /\ hndl.pduLength >= PDU_HEADER_LENGTH
          /\ Rd(hndl.pdu, 1) = fc[c]

C34_TrueOnlyOnOwnFrame == [][C34_Step]_vars

\* C35: at the moment the frame of a request is sent the reassembly buffer
\* is empty (bufferedMessageLength = 0): bytes of a partly received response
\* left over when the previous request timed out or completed are never put
\* together with the bytes of the response to the next request.
C35_Step ==
    \A c \in Callers :
       (pc[c] = "send" /\ pc'[c] = "sent") => hndl.bufferedMessageLength = 0

C35_EmptyAtSend == [][C35_Step]_vars

\* the complete valid response to the request caller c has handed to send()
C36_Response(c) ==
    ResponseFrame(hndl.type, "ok",
                  [req |-> req[c], fc |-> fc[c], tid |-> transactionIdentifier])

\* C36: no response is lost to the hand-over from sending to waiting: a
\* complete valid response that the delivery flow receives after send() has
\* returned for a request, also before the caller thread has stored the
\* outstanding transaction id and set the state to WaitingForResponse, is
\* not discarded: after the pass it is in the reassembly buffer or has been
\* accepted.
C36_Step ==
    \A c \in Callers :
       (/\ pc[c] = "sent"
        /\ epc = "wait"
        /\ wire = C36_Response(c)
        /\ wire' = <<>>)
       => \/ mhsState' = "success"
          \/ hndl'.bufferedMessageLength > 0

C36_NoLostResponse == [][C36_Step]_vars

\* C37: for every request sent on a TCP handle, the outstanding transaction
\* id recorded on the handle (hndl->transactionId) equals the transaction id
\* written into the header of the frame that was sent, also when requests on
\* different handles are issued at the same time from different threads and
\* share the static counter.
C37_IdMatchesHeader ==
    lab.kind = "two" =>
       \A c \in Callers :
          lab.pc[c] \in {"loaded", "waiting"} => lab.tid[c] = lab.hdr[c]

\* the bytes a ReadCoils request asks for: ceil(bitsToRead / 8)
C38_BytesAsked == (RequestPdu(READ_COILS, 0)[6] + 7) \div 8

\* C38: for every response a slave may send, the number of payload bytes a
\* read primitive copies into the caller's buffer never exceeds the amount
\* the request asked for, and the 16-bit computation pduLength - 3 in
\* PduDataLength never wraps below zero.
C38_CopyBounded ==
    \A c \in Callers :
       (pc[c] = "examine" /\ fc[c] = READ_COILS
        /\ Rd(hndl.pdu, 1) = READ_COILS)
       => /\ hndl.pduLength >= PDU_HEADER_LENGTH
          /\ PduDataLength(hndl) <= C38_BytesAsked

\* C39: on the M4 a valid serial response frame (PDU followed by its CRC)
\* is forwarded to the A7 exactly once, as the PDU without the CRC, however
\* its bytes are split across successive Uart_DequeueData results, also
\* when the PDU bytes have arrived and the CRC bytes have not yet; a frame
\* is dropped only if its CRC is wrong.  Here the first frame has been
\* received whole: it has been forwarded, and nothing has been dropped.
C39_FirstFrame == UartFrame(lab.frames[1])

C39_ForwardedOnce ==
    (lab.kind = "uart" /\ lab.pos = Len(C39_FirstFrame))
    => /\ lab.sent = <<UartPdu(lab.frames[1])>>
       /\ lab.crcFailures = 0
       /\ lab.length = 0

\* C40: in the slave simulator a read-file request (function 0x14) in which
\* any sub-request, in any position, names a file that does not exist
\* yields a non-zero exception result (ILLEGAL_DATA_ADDRESS) from
\* processIncomingMessage, exactly as a write-file request does; a failing
\* sub-request is never masked by a later successful one.
C40_MissingFile ==
    \E k \in DOMAIN lab.subs : ~(0 < lab.subs[k].fileNo /\ lab.subs[k].fileNo <= 6)

C40_MissingFileFails ==
    (lab.kind = "sim" /\ lab.called /\ lab.op \in {READ_FILE, WRITE_FILE}
     /\ C40_MissingFile)
    => /\ lab.result = ILLEGAL_DATA_ADDRESS
       /\ lab.reply = <<SlaveId, lab.op + MODBUS_EXCEPTION_BIT,
                        ILLEGAL_DATA_ADDRESS>>

\* the same for write-file requests alone
C40_WriteFails ==
    (lab.kind = "sim" /\ lab.called /\ lab.op = WRITE_FILE /\ C40_MissingFile)
    => lab.result = ILLEGAL_DATA_ADDRESS

====
